---------------------------- MODULE Spec2Model ----------------------------
(***************************************************************************)
(* A model of the virtual file system: the block storage engine            *)
(* (virtualStorage.c) and the file-system layer on top of it               *)
(* (virtualFileSystem.c).  The backing file is modelled byte by byte, the  *)
(* engine keeps the host file offset and its three cursors exactly as the  *)
(* code does, and every public operation is one action.                    *)
(*                                                                         *)
(* Width of integers: the code runs on LP64 (size_t and off_t are 64 bit,  *)
(* char is signed).  A size_t that wrapped below zero is kept as the       *)
(* negative number it is congruent to modulo 2^64; UGE and ULT0 compare    *)
(* such values the way unsigned 64-bit arithmetic does.                    *)
(***************************************************************************)
EXTENDS Integers, Sequences, FiniteSets, TLC

\* ------------------------------------------------------------------------
\* Program constants
\* ------------------------------------------------------------------------

DEFAULT_BLOCK_SIZE == 10

FIRST_BLOCK_POSITION == 4

BLOCK_HEADER_SIZE == 5

INVALID_REGION == 65535

INVALID_BLOCK == INVALID_REGION

BLOCK_NOT_IN_USE_INDICATOR == 0

BLOCK_IN_USE_INDICATOR == 1

NULL_ENTRY == 0

UNUSED_ENTRY == 1

FILE_ENTRY == 2

DIRECTORY_ENTRY == 3

root_directory_region_ == 0

\* '/' in a path
SLASH == 47

\* sizeof(size_t), sizeof(storage_region), sizeof(char) on LP64
SIZEOF_SIZE_T == 8

SIZEOF_REGION == 2

SIZEOF_CHAR == 1

\* ------------------------------------------------------------------------
\* Bounds of the model
\* ------------------------------------------------------------------------

\* descriptor slots (MAX_DESCRIPTORS is 256 in the code)
MaxDescriptors == 2

\* ------------------------------------------------------------------------
\* Bytes and integers
\* ------------------------------------------------------------------------

\* the marker of a buffer byte that read() did not deliver
NoByte == -1

Min(a, b) == IF a < b THEN a ELSE b

Max(a, b) == IF a > b THEN a ELSE b

\* a faulty variant of UGE: a > b
UGT(a, b) == IF a < 0 THEN TRUE ELSE a > b

\* unsigned comparison a >= b of a (possibly wrapped) size_t with a small b
UGE(a, b) == IF a < 0 THEN TRUE ELSE a >= b

\* unsigned comparison a < 0: never true
ULT0(a) == FALSE

\* little-endian encodings, as write(fd, &v, sizeof v) stores them
LE16(v) == << v % 256, (v \div 256) % 256 >>

LE64(v) == << v % 256, (v \div 256) % 256, (v \div 65536) % 256, 0, 0, 0, 0, 0 >>

RECURSIVE DecLEFrom(_, _)
DecLEFrom(b, i) ==
    IF i > Len(b) THEN 0 ELSE b[i] + 256 * DecLEFrom(b, i + 1)

DecLE(b) == DecLEFrom(b, 1)

\* a buffer of an uninitialised variable after a read: the bytes read() did
\* not deliver hold whatever the memory held (junk)
Fill(buf, n, junk) ==
    SubSeq([i \in 1..n |-> IF i <= Len(buf) /\ buf[i] # NoByte
                             THEN buf[i] ELSE junk], 1, n)

Short(buf, n) == Len(buf) < n \/ \E i \in 1..Len(buf) : buf[i] = NoByte

\* a C string: the bytes before the first NUL
CStr(b) == LET z == {i \in 1..Len(b) : b[i] = 0}
           IN IF z = {} THEN b
              ELSE SubSeq(b, 1, (CHOOSE i \in z : \A j \in z : i <= j) - 1)

\* strcmp(a, b) == 0
strcmp0(a, b) == CStr(a) = CStr(b)

\* ------------------------------------------------------------------------
\* The host file: read(), write(), lseek() on storage_file_
\* An engine state s is a record: disk (the bytes of the backing file),
\* pos (the host file offset), bs, count (active_block_size_,
\* active_block_count_), idx, bpos, rpos (current_block_index_,
\* current_block_position_, current_region_position_), cb (current_block_),
\* desc, last (descriptors_, last_used_descriptor_), junk (what
\* uninitialised memory holds during this call), ub (the call read an
\* indeterminate value), stuck (the call crashed or never returns) and log
\* (the write() calls of this call so far, each as << offset, count >>).
\* ------------------------------------------------------------------------

\* k bytes v, as a sequence
Rep(v, k) == SubSeq([i \in 1..Max(k, 0) |-> v], 1, Max(k, 0))

\* read(storage_file_, buf, k): the bytes delivered, NoByte past the end
SysRead(s, k) ==
    LET have == Max(0, Min(k, Len(s.disk) - s.pos))
    IN [s   |-> [s EXCEPT !.pos = @ + have],
        buf |-> SubSeq(s.disk, s.pos + 1, s.pos + have)
                \o Rep(NoByte, k - have)]

\* write(storage_file_, bytes, Len(bytes)): overwrites, extends past the end
\* (a gap reads as zeros)
SysWrite(s, bytes) ==
    LET k == Len(bytes)
        n == Len(s.disk)
    IN IF k = 0 THEN s
       ELSE [s EXCEPT
               !.disk = SubSeq(s.disk, 1, Min(s.pos, n))
                        \o Rep(0, s.pos - n)
                        \o bytes
                        \o SubSeq(s.disk, s.pos + k + 1, n),
               !.pos = @ + k,
               !.log = Append(@, << s.pos, k >>)]

\* lseek(storage_file_, p, SEEK_SET); a negative offset fails and moves nothing
LSeekSet(s, p) == IF p < 0 THEN s ELSE [s EXCEPT !.pos = p]

\* lseek(storage_file_, d, SEEK_CUR)
LSeekCur(s, d) == IF s.pos + d < 0 THEN s ELSE [s EXCEPT !.pos = @ + d]

\* Every call of one function by another goes through Fn, which enters the
\* definition named: Fn("f", << x, y >>) is the call f(x, y).
RECURSIVE Fn(_, _)

\* ------------------------------------------------------------------------
\* Storage engine (virtualStorage.c)
\* ------------------------------------------------------------------------

\* read_block_header: in_use (read into a bool), previous_block, next_block
read_block_header(s) ==
    LET r1 == SysRead(s, SIZEOF_CHAR)
        r2 == SysRead(r1.s, SIZEOF_REGION)
        r3 == SysRead(r2.s, SIZEOF_REGION)
        u  == r1.buf[1]
    IN [r3.s EXCEPT
          !.cb = [in_use         |-> IF u = NoByte THEN s.cb.in_use ELSE u,
                  previous_block |-> DecLE(Fill(r2.buf, 2, 0)),
                  next_block     |-> DecLE(Fill(r3.buf, 2, 0))],
          !.bpos = 0]

jump_to_block(s, block) ==
    IF block >= s.count THEN s
    ELSE [read_block_header(
             LSeekSet(s, FIRST_BLOCK_POSITION
                         + (s.bs + BLOCK_HEADER_SIZE) * block))
          EXCEPT !.idx = block]

\* the test !current_block_.in_use; a bool holding a byte other than 0 or 1
\* is indeterminate
NotInUse(s) == IF s.cb.in_use \in {0, 1} THEN s.cb.in_use = 0
               ELSE s.junk % 2 = 1

MarkBool(s) == IF s.cb.in_use \in {0, 1} THEN s ELSE [s EXCEPT !.ub = TRUE]

WriteHeader(s, in_use, prev, next) ==
    SysWrite(SysWrite(SysWrite(LSeekCur(s, -BLOCK_HEADER_SIZE),
                               << in_use >>), LE16(prev)), LE16(next))

allocate_scan(s, previous_block, inspected_block_index) ==
    IF inspected_block_index < s.count
    THEN LET j == MarkBool(Fn("jump_to_block", << s, inspected_block_index >>))
         IN IF NotInUse(j)
            THEN [s   |-> WriteHeader(j, BLOCK_IN_USE_INDICATOR,
                                      previous_block, INVALID_BLOCK),
                  ret |-> inspected_block_index]
            ELSE Fn("allocate_scan", << j, previous_block, inspected_block_index + 1 >>)
    ELSE [s |-> s, ret |-> INVALID_BLOCK]

allocate_block(s, previous_block) == Fn("allocate_scan", << s, previous_block, 0 >>)

storage_allocate_region(s) == Fn("allocate_block", << s, INVALID_BLOCK >>)

\* the loop of storage_free_region; fuel bounds an endless walk
free_loop(s, next_block, fuel) ==
    IF next_block = INVALID_BLOCK THEN s
    ELSE IF fuel = 0 THEN [s EXCEPT !.stuck = TRUE]
    ELSE LET j == Fn("jump_to_block", << s, next_block >>)
         IN Fn("free_loop", << WriteHeader(j, BLOCK_NOT_IN_USE_INDICATOR,
                                  INVALID_BLOCK, INVALID_BLOCK),
                      j.cb.next_block, fuel - 1 >>)

\* a faulty variant: the region stays allocated
storage_leave_region(s, region) == s

\* a faulty variant: the head block is freed, the rest of its chain is not
storage_free_head(s, region) ==
    IF region = INVALID_BLOCK THEN s
    ELSE WriteHeader(Fn("jump_to_block", << s, region >>),
                     BLOCK_NOT_IN_USE_INDICATOR, INVALID_BLOCK, INVALID_BLOCK)

storage_free_region(s, region) ==
    Fn("free_loop", << s, region, 2 * s.count + 2 >>)

storage_jump_to_region(s, region) ==
    [Fn("jump_to_block", << s, region >>) EXCEPT !.rpos = 0]

\* the loop of storage_read_in_region, then its tail.  A loop that has moved
\* more bytes than all chains together hold walks a chain that is a cycle:
\* it never ends
read_loop(s, n_bytes, read_bytes, buf) ==
    IF read_bytes > n_bytes + 2 * s.count * (s.bs + BLOCK_HEADER_SIZE)
    THEN [s |-> [s EXCEPT !.stuck = TRUE], ret |-> read_bytes, buf |-> buf]
    ELSE IF UGE(s.bpos + n_bytes - read_bytes, s.bs)
    THEN LET bytes_to_read == s.bs - s.bpos
             r  == SysRead(s, bytes_to_read)
             rb == read_bytes + bytes_to_read
         IN IF r.s.cb.next_block = INVALID_BLOCK
            THEN [s |-> r.s, ret |-> rb, buf |-> buf \o r.buf]
            ELSE Fn("read_loop", << Fn("jump_to_block", << r.s, r.s.cb.next_block >>),
                           n_bytes, rb, buf \o r.buf >>)
    ELSE LET r == SysRead(s, n_bytes - read_bytes)
         IN [s   |-> [r.s EXCEPT !.bpos = @ + (n_bytes - read_bytes),
                                 !.rpos = @ + n_bytes],
             ret |-> n_bytes,
             buf |-> buf \o r.buf]

storage_read_in_region(s, n_bytes) == Fn("read_loop", << s, n_bytes, 0, << >> >>)

\* the loop of storage_write_in_region, then its tail.  write() takes
\* bytes_to_write bytes from buffer + written_bytes on: those past the end of
\* the caller's buffer are whatever the memory holds (junk).  A loop that has
\* moved more bytes than all chains together hold never ends
write_loop(s, buffer, written_bytes) ==
    LET n_bytes == Len(buffer)
        Take(k) ==
            SubSeq([i \in 1..Max(k, 0) |->
                      IF written_bytes + i \in 1..n_bytes
                      THEN buffer[written_bytes + i] ELSE s.junk],
                   1, Max(k, 0))
        Overread(k) ==
            IF written_bytes + k > n_bytes THEN [s EXCEPT !.ub = TRUE] ELSE s
    IN IF written_bytes > n_bytes + 2 * s.count * (s.bs + BLOCK_HEADER_SIZE)
       THEN [s |-> [s EXCEPT !.stuck = TRUE], ret |-> written_bytes]
       ELSE IF UGE(s.bpos + n_bytes - written_bytes, s.bs)
       THEN LET bytes_to_write == s.bs - s.bpos
                w  == SysWrite(Overread(bytes_to_write), Take(bytes_to_write))
                wb == written_bytes + bytes_to_write
            IN IF w.cb.next_block # INVALID_BLOCK
               THEN Fn("write_loop", << Fn("jump_to_block", << w, w.cb.next_block >>), buffer, wb >>)
               ELSE LET current_block == w.idx
                        a == Fn("allocate_block", << w, w.idx >>)
                        new_block == a.ret
                    IN IF new_block = INVALID_BLOCK
                       THEN [s |-> a.s, ret |-> wb]
                       ELSE LET j == Fn("jump_to_block", << a.s, current_block >>)
                                l == SysWrite(
                                       LSeekCur(j, -BLOCK_HEADER_SIZE
                                                   + SIZEOF_CHAR + SIZEOF_REGION),
                                       LE16(new_block))
                            IN Fn("write_loop", << Fn("jump_to_block", << l, new_block >>),
                                          buffer, wb >>)
       ELSE LET w == SysWrite(s, SubSeq(buffer, written_bytes + 1, n_bytes))
            IN [s   |-> [w EXCEPT !.bpos = @ + (n_bytes - written_bytes),
                                  !.rpos = @ + n_bytes],
                ret |-> n_bytes]

storage_write_in_region(s, buffer) == Fn("write_loop", << s, buffer, 0 >>)

\* the forward loop of storage_seek_in_region; once the unsigned distance
\* left has wrapped, the loop has some 2^64 / block size rounds to go
seek_fwd(s, offset, sought_bytes) ==
    IF s.bpos + offset - sought_bytes < 0 THEN [s EXCEPT !.stuck = TRUE]
    ELSE IF UGE(s.bpos + offset - sought_bytes, s.bs)
    THEN Fn("seek_fwd", << Fn("jump_to_block", << s, s.cb.next_block >>), offset,
                  sought_bytes + (s.bs - s.bpos) >>)
    ELSE [LSeekCur(s, offset - sought_bytes)
          EXCEPT !.bpos = @ + (offset - sought_bytes)]

\* the backward loop of storage_seek_in_region: its guard compares a size_t
\* with 0
seek_bwd(s, offset, sought_bytes) ==
    IF ULT0(s.bpos + offset - sought_bytes)
    THEN LET j == Fn("jump_to_block", << s, s.cb.previous_block >>)
         IN Fn("seek_bwd", << [LSeekCur(j, s.bs - 1) EXCEPT !.bpos = s.bs - 1],
                     offset, sought_bytes - (s.bpos + 1) >>)
    ELSE [LSeekCur(s, offset - sought_bytes)
          EXCEPT !.bpos = @ + (offset - sought_bytes)]

storage_seek_in_region(s, offset) ==
    LET m == IF offset > 0 THEN Fn("seek_fwd", << s, offset, 0 >>)
             ELSE IF offset < 0 THEN Fn("seek_bwd", << s, offset, 0 >>)
             ELSE s
        t == [m EXCEPT !.rpos = @ + offset]
    IN [s |-> t, ret |-> t.rpos]

\* ------------------------------------------------------------------------
\* File-system layer (virtualFileSystem.c)
\* ------------------------------------------------------------------------

\* a free slot of descriptors_
NULL == [open |-> FALSE, content_region |-> 0, metadata_region |-> 0,
         length |-> 0, reader_position |-> 0]

virtual_file(c, m, l, p) ==
    [open |-> TRUE, content_region |-> c, metadata_region |-> m,
     length |-> l, reader_position |-> p]

NoFile == virtual_file(INVALID_REGION, INVALID_REGION, 0, 0)

\* storage_read_in_region into a variable initialised to 0
RdInit(s, n) ==
    LET r == Fn("storage_read_in_region", << s, n >>)
    IN [s |-> r.s, v |-> Fill(r.buf, n, 0)]

\* storage_read_in_region into an uninitialised variable or malloc'd buffer
RdUninit(s, n) ==
    LET r == Fn("storage_read_in_region", << s, n >>)
    IN [s |-> IF Short(r.buf, n) THEN [r.s EXCEPT !.ub = TRUE] ELSE r.s,
        v |-> Fill(r.buf, n, r.s.junk)]

\* a size_t read from the disk; values of 2^24 and more are kept as 2^24
\* plus the low three bytes
DecLen(b) == DecLE(SubSeq(b, 1, 3))
             + (IF \E i \in 4..8 : b[i] # 0 THEN 16777216 ELSE 0)

\* char name_length; name = malloc(name_length + 1); read; name[length] = 0.
\* A length byte above 127 is a negative char: malloc fails and the store
\* through the null pointer ends the program.
read_name(s) ==
    LET l == Fn("RdUninit", << s, SIZEOF_CHAR >>)
        name_length == l.v[1]
    IN IF name_length > 127
       THEN [s |-> [l.s EXCEPT !.stuck = TRUE], name |-> << >>]
       ELSE LET n == Fn("RdUninit", << l.s, name_length >>)
            IN [s |-> n.s, name |-> n.v]

\* a faulty variant: the first directory entry is taken whatever its name
directory_any(entry_name, directory_name) == TRUE

\* the comparison of a directory entry's name with the path component
directory_found(entry_name, directory_name) ==
    strcmp0(entry_name, directory_name)

\* the entry scan of navigate_to_virtual_directory for one path component
nav_scan(s, directory_region, directory_name, fuel) ==
    IF fuel = 0 \/ s.stuck
    THEN [s |-> [s EXCEPT !.stuck = TRUE], region |-> INVALID_REGION]
    ELSE
    LET t == Fn("RdInit", << s, SIZEOF_CHAR >>)
        entry_type == t.v[1]
    IN IF entry_type = NULL_ENTRY
       THEN [s |-> t.s, region |-> INVALID_REGION]
       ELSE IF entry_type # DIRECTORY_ENTRY
       THEN Fn("nav_scan", << Fn("storage_seek_in_region", << t.s, SIZEOF_REGION * 2 >>).s,
                     directory_region, directory_name, fuel - 1 >>)
       ELSE LET m == Fn("RdUninit", << t.s, SIZEOF_REGION >>)
                c == Fn("RdUninit", << m.s, SIZEOF_REGION >>)
                metadata_region == DecLE(m.v)
                content_region == DecLE(c.v)
                next_entry_position == Fn("storage_seek_in_region", << c.s, 0 >>).ret
                nm == Fn("read_name", << Fn("storage_jump_to_region", << c.s, metadata_region >>) >>)
            IN IF nm.s.stuck
               THEN [s |-> nm.s, region |-> INVALID_REGION]
               ELSE IF directory_found(nm.name, directory_name)
               THEN [s |-> Fn("storage_jump_to_region", << nm.s, content_region >>),
                     region |-> content_region]
               ELSE Fn("nav_scan", <<
                      Fn("storage_seek_in_region", <<
                        Fn("storage_jump_to_region", << nm.s, directory_region >>),
                        next_entry_position >>).s,
                      directory_region, directory_name, fuel - 1 >>)

ScanFuel(s) == 4 * s.count + 8

\* the for loop of navigate_to_virtual_directory over path[i]
nav_path(s, path, i, last_slash_position, directory_region) ==
    IF i >= Len(path)
    THEN [s |-> s, directory_region |-> directory_region,
          remainder_path |-> SubSeq(path, last_slash_position + 2, Len(path))]
    ELSE IF path[i + 1] = SLASH
    THEN LET directory_name == SubSeq(path, last_slash_position + 2, i)
             f == Fn("nav_scan", << s, directory_region, directory_name, ScanFuel(s) >>)
         IN IF f.region = INVALID_REGION
            THEN [s |-> f.s, directory_region |-> INVALID_REGION,
                  remainder_path |-> << >>]
            ELSE Fn("nav_path", << f.s, path, i + 1, i, f.region >>)
    ELSE Fn("nav_path", << s, path, i + 1, last_slash_position, directory_region >>)

navigate_to_virtual_directory(s, path) ==
    Fn("nav_path", << Fn("storage_jump_to_region", << s, root_directory_region_ >>), path, 0, -1,
             root_directory_region_ >>)

\* a faulty variant: the affinity cache is kept where the code drops it
keep_last_descriptor(s) == s

invalidate_last_descriptor(s) == [s EXCEPT !.last = -1]

update_virtual_file_metadata(s, metadata_region, file_size) ==
    invalidate_last_descriptor(
      Fn("storage_write_in_region", << Fn("storage_jump_to_region", << s, metadata_region >>),
                              LE64(file_size) >>).s)

jump_to_file_if_needed(s, fd) ==
    IF s.last = fd THEN s
    ELSE [Fn("storage_seek_in_region", <<
            Fn("storage_jump_to_region", << s, s.desc[fd].content_region >>),
            s.desc[fd].reader_position >>).s
          EXCEPT !.last = fd]

\* the entry scan of find_virtual_file
find_scan(s, directory_region, remainder_path, fuel) ==
    IF fuel = 0 \/ s.stuck
    THEN [s |-> [s EXCEPT !.stuck = TRUE], file |-> NoFile]
    ELSE
    LET t == Fn("RdInit", << s, SIZEOF_CHAR >>)
        entry_type == t.v[1]
    IN IF entry_type = NULL_ENTRY
       THEN [s |-> t.s, file |-> NoFile]
       ELSE IF entry_type # FILE_ENTRY
       THEN Fn("find_scan", << Fn("storage_seek_in_region", << t.s, SIZEOF_REGION * 2 >>).s,
                      directory_region, remainder_path, fuel - 1 >>)
       ELSE LET m == Fn("RdUninit", << t.s, SIZEOF_REGION >>)
                c == Fn("RdUninit", << m.s, SIZEOF_REGION >>)
                metadata_region == DecLE(m.v)
                content_region == DecLE(c.v)
                next_entry_position == Fn("storage_seek_in_region", << c.s, 0 >>).ret
                l == Fn("RdUninit", << Fn("storage_jump_to_region", << c.s, metadata_region >>),
                              SIZEOF_SIZE_T >>)
                file_length == DecLen(l.v)
                nm == Fn("read_name", << l.s >>)
            IN IF nm.s.stuck
               THEN [s |-> nm.s, file |-> NoFile]
               ELSE IF strcmp0(nm.name, remainder_path)
               THEN [s |-> nm.s,
                     file |-> virtual_file(content_region, metadata_region,
                                           file_length, 0)]
               ELSE Fn("find_scan", <<
                      Fn("storage_seek_in_region", <<
                        Fn("storage_jump_to_region", << nm.s, directory_region >>),
                        next_entry_position >>).s,
                      directory_region, remainder_path, fuel - 1 >>)

find_virtual_file(s, file_path) ==
    LET n == Fn("navigate_to_virtual_directory", << s, file_path >>)
    IN IF n.directory_region = INVALID_REGION
       THEN [s |-> n.s, file |-> NoFile]
       ELSE Fn("find_scan", << n.s, n.directory_region, n.remainder_path,
                      ScanFuel(s) >>)

\* a faulty variant: the scan passes UNUSED slots and stops at END only
slot_scan_to_end(s, fuel) ==
    IF fuel = 0 THEN [s EXCEPT !.stuck = TRUE]
    ELSE LET t == Fn("RdUninit", << s, SIZEOF_CHAR >>)
             entry_type == t.v[1]
         IN IF entry_type = NULL_ENTRY
            THEN t.s
            ELSE Fn("slot_scan", <<
                   Fn("storage_seek_in_region", << t.s, SIZEOF_REGION + SIZEOF_REGION >>).s,
                   fuel - 1 >>)

\* the scan of create_virtual_file and mkdir_virtual for the first END or
\* UNUSED slot; entry_type is an uninitialised char
slot_scan(s, fuel) ==
    IF fuel = 0 THEN [s EXCEPT !.stuck = TRUE]
    ELSE LET t == Fn("RdUninit", << s, SIZEOF_CHAR >>)
             entry_type == t.v[1]
         IN IF entry_type = NULL_ENTRY \/ entry_type = UNUSED_ENTRY
            THEN t.s
            ELSE Fn("slot_scan", <<
                   Fn("storage_seek_in_region", << t.s, SIZEOF_REGION + SIZEOF_REGION >>).s,
                   fuel - 1 >>)

\* the directory entry written by create_virtual_file and mkdir_virtual
write_entry(s, entry_type, metadata_region, content_region) ==
    LET b == Fn("storage_seek_in_region", << s, -SIZEOF_CHAR >>).s
        w1 == Fn("storage_write_in_region", << b, << entry_type >> >>).s
        w2 == Fn("storage_write_in_region", << w1, LE16(metadata_region) >>).s
    IN Fn("storage_write_in_region", << w2, LE16(content_region) >>).s

create_virtual_file(s, file_path) ==
    LET n == Fn("navigate_to_virtual_directory", << s, file_path >>)
    IN IF n.directory_region = INVALID_REGION
       THEN [s |-> n.s, file |-> NoFile]
       ELSE
       LET c == Fn("storage_allocate_region", << n.s >>)
           content_region == c.ret
       IN IF content_region = INVALID_REGION
          THEN [s |-> c.s, file |-> NoFile]
          ELSE
          LET m == Fn("storage_allocate_region", << c.s >>)
              metadata_region == m.ret
          IN IF metadata_region = INVALID_REGION
             THEN [s |-> Fn("storage_free_region", << m.s, content_region >>),
                   file |-> NoFile]
             ELSE
             LET f == Fn("slot_scan", <<
                        Fn("storage_jump_to_region", << m.s, n.directory_region >>),
                        ScanFuel(s) >>)
                 e == Fn("write_entry", << f, FILE_ENTRY, metadata_region,
                                  content_region >>)
                 j == Fn("storage_jump_to_region", << e, metadata_region >>)
                 file_length == 0
                 w1 == Fn("storage_write_in_region", << j, LE64(file_length) >>).s
                 w2 == Fn("storage_write_in_region", <<
                         w1, << Len(n.remainder_path) >> >>).s
                 w3 == Fn("storage_write_in_region", << w2, n.remainder_path >>).s
             IN [s |-> w3,
                 file |-> virtual_file(content_region, metadata_region,
                                       file_length, 0)]

\* a faulty variant: the last NULL slot is taken
last_available_descriptor(s) ==
    LET free == {i \in 0..(MaxDescriptors - 1) : ~s.desc[i].open}
    IN IF free = {} THEN -1 ELSE CHOOSE i \in free : \A j \in free : j <= i

\* a faulty variant: a missing file is created whatever the flags
creation_always(flags) == TRUE

\* the test flags & O_CREAT that lets open_virtual create a missing file
creation_allowed(flags) == "O_CREAT" \in flags

\* the first NULL slot of descriptors_, -1 when there is none
first_available_descriptor(s) ==
    LET free == {i \in 0..(MaxDescriptors - 1) : ~s.desc[i].open}
    IN IF free = {} THEN -1 ELSE CHOOSE i \in free : \A j \in free : i <= j

\* open_virtual; flags is the set of the O_ flags given.  O_TRUNC and
\* O_APPEND change the local copy `file` after it was stored in the table.
open_virtual(s, path, flags) ==
    LET fd == first_available_descriptor(s)
    IN IF fd = -1 THEN [s |-> s, ret |-> -1, out |-> << >>]
       ELSE
       LET f == Fn("find_virtual_file", << invalidate_last_descriptor(s), path >>)
           c == IF f.file.content_region = INVALID_REGION
                   /\ creation_allowed(flags)
                THEN Fn("create_virtual_file", << f.s, path >>)
                ELSE f
       IN IF f.file.content_region = INVALID_REGION
             /\ ~creation_allowed(flags)
          THEN [s |-> f.s, ret |-> -1, out |-> << >>]
          ELSE IF c.file.content_region = INVALID_REGION
          THEN [s |-> c.s, ret |-> -1, out |-> << >>]
          ELSE IF f.file.content_region # INVALID_REGION /\ "O_EXCL" \in flags
          THEN [s |-> f.s, ret |-> -1, out |-> << >>]
          ELSE
          LET d == [c.s EXCEPT !.desc[fd] = c.file]
              t == IF "O_TRUNC" \in flags
                   THEN Fn("storage_allocate_region", <<
                          Fn("storage_free_region", << d, c.file.content_region >>) >>).s
                   ELSE d
          IN [s |-> t, ret |-> fd, out |-> << >>]

ValidDescriptor(s, fd) ==
    ~(fd < 0 \/ fd >= MaxDescriptors) /\ s.desc[fd].open

close_virtual(s, fd) ==
    IF ~ValidDescriptor(s, fd) THEN [s |-> s, ret |-> 0, out |-> << >>]
    ELSE [s |-> [s EXCEPT !.desc[fd] = NULL], ret |-> 0, out |-> << >>]

mkdir_virtual(s, directory_path) ==
    LET n == Fn("navigate_to_virtual_directory", << invalidate_last_descriptor(s),
                                           directory_path >>)
    IN IF n.directory_region = INVALID_REGION
       THEN [s |-> n.s, ret |-> -1, out |-> << >>]
       ELSE
       LET c == Fn("storage_allocate_region", << n.s >>)
           content_region == c.ret
       IN IF content_region = INVALID_REGION
          THEN [s |-> c.s, ret |-> -1, out |-> << >>]
          ELSE
          LET m == Fn("storage_allocate_region", << c.s >>)
              metadata_region == m.ret
          IN IF metadata_region = INVALID_REGION
             THEN [s |-> Fn("storage_free_region", << m.s, content_region >>),
                   ret |-> -1, out |-> << >>]
             ELSE
             LET f == Fn("slot_scan", <<
                        Fn("storage_jump_to_region", << m.s, n.directory_region >>),
                        ScanFuel(s) >>)
                 e == Fn("write_entry", << f, DIRECTORY_ENTRY, metadata_region,
                                  content_region >>)
                 j == Fn("storage_jump_to_region", << e, metadata_region >>)
                 w1 == Fn("storage_write_in_region", <<
                         j, << Len(n.remainder_path) >> >>).s
                 w2 == Fn("storage_write_in_region", << w1, n.remainder_path >>).s
             IN [s |-> w2, ret |-> 0, out |-> << >>]

\* a faulty variant: FILE entries are skipped as well
skipped_when_file_too(entry_type) == entry_type # DIRECTORY_ENTRY

\* the entries the emptiness scan of rmdir_virtual skips
skipped_by_rmdir(entry_type) == entry_type = UNUSED_ENTRY

\* rmdir_virtual: the scan of the directory being deleted for live entries
empty_scan(s, fuel) ==
    IF fuel = 0 THEN [s |-> [s EXCEPT !.stuck = TRUE], empty |-> FALSE]
    ELSE LET t == Fn("RdInit", << s, SIZEOF_CHAR >>)
             entry_type == t.v[1]
         IN IF entry_type = NULL_ENTRY THEN [s |-> t.s, empty |-> TRUE]
            ELSE IF skipped_by_rmdir(entry_type)
            THEN Fn("empty_scan", << Fn("storage_seek_in_region", << t.s, SIZEOF_REGION * 2 >>).s,
                            fuel - 1 >>)
            ELSE [s |-> t.s, empty |-> FALSE]

\* the region rmdir_virtual jumps to before it marks the entry as unused
rmdir_mark_region(directory_region) == root_directory_region_

\* rmdir_virtual: the scan of the containing directory
rmdir_scan(s, directory_region, remainder_path, fuel) ==
    IF fuel = 0 \/ s.stuck
    THEN [s |-> [s EXCEPT !.stuck = TRUE], ret |-> -1, out |-> << >>]
    ELSE
    LET p == Fn("storage_seek_in_region", << s, 0 >>)
        entry_position == p.ret
        t == Fn("RdInit", << p.s, SIZEOF_CHAR >>)
        entry_type == t.v[1]
    IN IF entry_type = NULL_ENTRY
       THEN [s |-> t.s, ret |-> -1, out |-> << >>]
       ELSE IF entry_type # DIRECTORY_ENTRY
       THEN Fn("rmdir_scan", << Fn("storage_seek_in_region", << t.s, SIZEOF_REGION * 2 >>).s,
                       directory_region, remainder_path, fuel - 1 >>)
       ELSE LET m == Fn("RdUninit", << t.s, SIZEOF_REGION >>)
                c == Fn("RdUninit", << m.s, SIZEOF_REGION >>)
                metadata_region == DecLE(m.v)
                content_region == DecLE(c.v)
                next_entry_position == Fn("storage_seek_in_region", << c.s, 0 >>).ret
                nm == Fn("read_name", << Fn("storage_jump_to_region", << c.s, metadata_region >>) >>)
            IN IF nm.s.stuck
               THEN [s |-> nm.s, ret |-> -1, out |-> << >>]
               ELSE IF strcmp0(nm.name, remainder_path)
               THEN LET e == Fn("empty_scan", <<
                               Fn("storage_jump_to_region", << nm.s, content_region >>),
                               ScanFuel(s) >>)
                    IN IF ~e.empty
                       THEN [s |-> e.s, ret |-> -1, out |-> << >>]
                       ELSE
                       LET k == Fn("storage_seek_in_region", <<
                                  Fn("storage_jump_to_region", <<
                                    e.s, rmdir_mark_region(directory_region) >>),
                                  entry_position >>).s
                           w == Fn("storage_write_in_region", <<
                                  k, << UNUSED_ENTRY >> >>).s
                           f1 == Fn("storage_free_region", << w, content_region >>)
                           f2 == Fn("storage_free_region", << f1, metadata_region >>)
                       IN [s |-> f2, ret |-> 0, out |-> << >>]
               ELSE Fn("rmdir_scan", <<
                      Fn("storage_seek_in_region", <<
                        Fn("storage_jump_to_region", << nm.s, directory_region >>),
                        next_entry_position >>).s,
                      directory_region, remainder_path, fuel - 1 >>)

rmdir_virtual(s, directory_path) ==
    LET n == Fn("navigate_to_virtual_directory", << invalidate_last_descriptor(s),
                                           directory_path >>)
    IN IF n.directory_region = INVALID_REGION
       THEN [s |-> n.s, ret |-> -1, out |-> << >>]
       ELSE Fn("rmdir_scan", << n.s, n.directory_region, n.remainder_path,
                       ScanFuel(s) >>)

\* unlink_virtual: the scan of the containing directory
unlink_scan(s, directory_region, remainder_path, fuel) ==
    IF fuel = 0 \/ s.stuck
    THEN [s |-> [s EXCEPT !.stuck = TRUE], ret |-> -1, out |-> << >>]
    ELSE
    LET p == Fn("storage_seek_in_region", << s, 0 >>)
        entry_position == p.ret
        t == Fn("RdInit", << p.s, SIZEOF_CHAR >>)
        entry_type == t.v[1]
    IN IF entry_type = NULL_ENTRY
       THEN [s |-> t.s, ret |-> -1, out |-> << >>]
       ELSE IF entry_type # FILE_ENTRY
       THEN Fn("unlink_scan", << Fn("storage_seek_in_region", << t.s, SIZEOF_REGION * 2 >>).s,
                        directory_region, remainder_path, fuel - 1 >>)
       ELSE LET m == Fn("RdUninit", << t.s, SIZEOF_REGION >>)
                c == Fn("RdUninit", << m.s, SIZEOF_REGION >>)
                metadata_region == DecLE(m.v)
                content_region == DecLE(c.v)
                next_entry_position == Fn("storage_seek_in_region", << c.s, 0 >>).ret
                l == Fn("RdUninit", << Fn("storage_jump_to_region", << c.s, metadata_region >>),
                              SIZEOF_SIZE_T >>)
                nm == Fn("read_name", << l.s >>)
            IN IF nm.s.stuck
               THEN [s |-> nm.s, ret |-> -1, out |-> << >>]
               ELSE IF strcmp0(nm.name, remainder_path)
               THEN LET k == Fn("storage_seek_in_region", <<
                               Fn("storage_jump_to_region", << nm.s, directory_region >>),
                               entry_position >>).s
                        w == Fn("storage_write_in_region", <<
                               k, << UNUSED_ENTRY >> >>).s
                        f1 == Fn("storage_free_region", << w, content_region >>)
                        f2 == Fn("storage_free_region", << f1, metadata_region >>)
                    IN [s |-> f2, ret |-> 0, out |-> << >>]
               ELSE Fn("unlink_scan", <<
                      Fn("storage_seek_in_region", <<
                        Fn("storage_jump_to_region", << nm.s, directory_region >>),
                        next_entry_position >>).s,
                      directory_region, remainder_path, fuel - 1 >>)

unlink_virtual(s, file_path) ==
    LET n == Fn("navigate_to_virtual_directory", << invalidate_last_descriptor(s),
                                           file_path >>)
    IN IF n.directory_region = INVALID_REGION
       THEN [s |-> n.s, ret |-> -1, out |-> << >>]
       ELSE Fn("unlink_scan", << n.s, n.directory_region, n.remainder_path,
                        ScanFuel(s) >>)

\* a faulty variant: the request is not cut at the end of the file
bytes_requested(reader_position, length, n_bytes) == n_bytes

\* the amount read_virtual reads: the request, cut at the end of the file
bytes_to_read_virtual(reader_position, length, n_bytes) ==
    IF reader_position + n_bytes > length
    THEN length - reader_position
    ELSE n_bytes

\* read_virtual; out is the caller's buffer, NoByte where nothing was stored
read_virtual(s, fd, n_bytes) ==
    IF ~ValidDescriptor(s, fd) THEN [s |-> s, ret |-> 0, out |-> << >>]
    ELSE
    LET j == Fn("jump_to_file_if_needed", << s, fd >>)
        d == j.desc[fd]
        bytes_to_read == bytes_to_read_virtual(d.reader_position, d.length,
                                               n_bytes)
        r == Fn("storage_read_in_region", << j, bytes_to_read >>)
    IN [s   |-> [r.s EXCEPT !.desc[fd].reader_position = @ + bytes_to_read],
        ret |-> bytes_to_read,
        out |-> r.buf]

\* the value write_virtual returns
write_virtual_result(n_bytes, stored) == n_bytes

\* the amount write_virtual advances reader_position by
write_virtual_advance(n_bytes, stored) == n_bytes

\* the length write_virtual stores after the write left the cursor at
\* reader_position, at or past the previous length
write_virtual_length(reader_position) == reader_position + 1

write_virtual(s, fd, buffer) ==
    IF ~ValidDescriptor(s, fd)
    THEN [s |-> s, ret |-> 0, out |-> << >>, stored |-> 0]
    ELSE
    LET n_bytes == Len(buffer)
        w == Fn("storage_write_in_region", << Fn("jump_to_file_if_needed", << s, fd >>), buffer >>)
        p == w.s.desc[fd].reader_position
               + write_virtual_advance(n_bytes, w.ret)
        a == [w.s EXCEPT !.desc[fd].reader_position = p]
        u == IF p >= a.desc[fd].length
             THEN Fn("update_virtual_file_metadata", <<
                    [a EXCEPT !.desc[fd].length = write_virtual_length(p)],
                    a.desc[fd].metadata_region, write_virtual_length(p) >>)
             ELSE a
    IN [s |-> u, ret |-> write_virtual_result(n_bytes, w.ret), out |-> << >>,
        stored |-> w.ret]

\* a faulty variant: the new position is stored as computed
unclamped_position(new_position, length) == new_position

\* a faulty variant: only a position past the end is clamped
clamped_above_only(new_position, length) ==
    IF new_position > length THEN length ELSE new_position

\* the clamp of seek_virtual
clamp_position(new_position, length) ==
    IF new_position < 0 THEN 0
    ELSE IF new_position > length THEN length
    ELSE new_position

seek_virtual(s, fd, offset, whence) ==
    IF ~ValidDescriptor(s, fd) THEN [s |-> s, ret |-> -1, out |-> << >>]
    ELSE
    LET d == s.desc[fd]
    IN IF whence \notin {"SEEK_SET", "SEEK_CUR", "SEEK_END"}
       THEN [s |-> s, ret |-> d.reader_position, out |-> << >>]
       ELSE
       LET new_position == CASE whence = "SEEK_SET" -> offset
                             [] whence = "SEEK_CUR" -> d.reader_position + offset
                             [] whence = "SEEK_END" -> d.length + offset
           clamped == clamp_position(new_position, d.length)
       IN [s   |-> [s EXCEPT !.desc[fd].reader_position = clamped],
           ret |-> clamped, out |-> << >>]

\* the definition a call enters
Fn(f, a) ==
    CASE f = "jump_to_block" -> jump_to_block(a[1], a[2])
      [] f = "allocate_scan" -> allocate_scan(a[1], a[2], a[3])
      [] f = "allocate_block" -> allocate_block(a[1], a[2])
      [] f = "storage_allocate_region" -> storage_allocate_region(a[1])
      [] f = "free_loop" -> free_loop(a[1], a[2], a[3])
      [] f = "storage_free_region" -> storage_free_region(a[1], a[2])
      [] f = "storage_jump_to_region" -> storage_jump_to_region(a[1], a[2])
      [] f = "read_loop" -> read_loop(a[1], a[2], a[3], a[4])
      [] f = "storage_read_in_region" -> storage_read_in_region(a[1], a[2])
      [] f = "write_loop" -> write_loop(a[1], a[2], a[3])
      [] f = "storage_write_in_region" -> storage_write_in_region(a[1], a[2])
      [] f = "seek_fwd" -> seek_fwd(a[1], a[2], a[3])
      [] f = "seek_bwd" -> seek_bwd(a[1], a[2], a[3])
      [] f = "storage_seek_in_region" -> storage_seek_in_region(a[1], a[2])
      [] f = "RdInit" -> RdInit(a[1], a[2])
      [] f = "RdUninit" -> RdUninit(a[1], a[2])
      [] f = "read_name" -> read_name(a[1])
      [] f = "nav_scan" -> nav_scan(a[1], a[2], a[3], a[4])
      [] f = "nav_path" -> nav_path(a[1], a[2], a[3], a[4], a[5])
      [] f = "navigate_to_virtual_directory" -> navigate_to_virtual_directory(a[1], a[2])
      [] f = "update_virtual_file_metadata" -> update_virtual_file_metadata(a[1], a[2], a[3])
      [] f = "jump_to_file_if_needed" -> jump_to_file_if_needed(a[1], a[2])
      [] f = "find_scan" -> find_scan(a[1], a[2], a[3], a[4])
      [] f = "find_virtual_file" -> find_virtual_file(a[1], a[2])
      [] f = "slot_scan" -> slot_scan(a[1], a[2])
      [] f = "write_entry" -> write_entry(a[1], a[2], a[3], a[4])
      [] f = "create_virtual_file" -> create_virtual_file(a[1], a[2])
      [] f = "open_virtual" -> open_virtual(a[1], a[2], a[3])
      [] f = "close_virtual" -> close_virtual(a[1], a[2])
      [] f = "mkdir_virtual" -> mkdir_virtual(a[1], a[2])
      [] f = "empty_scan" -> empty_scan(a[1], a[2])
      [] f = "rmdir_scan" -> rmdir_scan(a[1], a[2], a[3], a[4])
      [] f = "rmdir_virtual" -> rmdir_virtual(a[1], a[2])
      [] f = "unlink_scan" -> unlink_scan(a[1], a[2], a[3], a[4])
      [] f = "unlink_virtual" -> unlink_virtual(a[1], a[2])
      [] f = "read_virtual" -> read_virtual(a[1], a[2], a[3])
      [] f = "write_virtual" -> write_virtual(a[1], a[2], a[3])
      [] f = "seek_virtual" -> seek_virtual(a[1], a[2], a[3], a[4])

\* ------------------------------------------------------------------------
\* State
\* ------------------------------------------------------------------------

VARIABLES disk, pos, active_block_size_, active_block_count_,
          current_block_index_, current_block_position_,
          current_region_position_, current_block_,
          descriptors_, last_used_descriptor_,
          stuck, hist

vars == << disk, pos, active_block_size_, active_block_count_,
           current_block_index_, current_block_position_,
           current_region_position_, current_block_,
           descriptors_, last_used_descriptor_, stuck, hist >>

\* what uninitialised memory may hold
JunkBytes == {0, 1, 2, 255}

\* the program state as the record the operators work on
St(junk) ==
    [disk |-> disk, pos |-> pos, bs |-> active_block_size_,
     count |-> active_block_count_, idx |-> current_block_index_,
     bpos |-> current_block_position_, rpos |-> current_region_position_,
     cb |-> current_block_, desc |-> descriptors_,
     last |-> last_used_descriptor_, junk |-> junk, ub |-> FALSE,
     stuck |-> FALSE, log |-> << >>]

\* one block as create_storage_file writes it
FreshBlock(in_use, block_size) ==
    << in_use >> \o LE16(INVALID_BLOCK) \o LE16(INVALID_BLOCK)
    \o SubSeq([i \in 1..block_size |-> 0], 1, block_size)

RECURSIVE FreshBlocks(_, _)
FreshBlocks(n, block_size) ==
    IF n = 0 THEN << >>
    ELSE FreshBlocks(n - 1, block_size)
         \o FreshBlock(BLOCK_NOT_IN_USE_INDICATOR, block_size)

\* the backing file create_storage_file writes
create_storage_file(block_size, block_count) ==
    LE16(block_size) \o LE16(block_count)
    \o FreshBlock(BLOCK_IN_USE_INDICATOR, block_size)
    \o FreshBlocks(block_count - 1, block_size)

\* the state after storage_initialize on a backing file it has just created
\* with block_count blocks
InitWith(block_count) ==
    /\ disk = create_storage_file(DEFAULT_BLOCK_SIZE, block_count)
    /\ pos = FIRST_BLOCK_POSITION
    /\ active_block_size_ = DEFAULT_BLOCK_SIZE
    /\ active_block_count_ = block_count
    /\ current_block_index_ = 0
    /\ current_block_position_ = 0
    /\ current_region_position_ = 0
    /\ current_block_ = [in_use |-> 0, previous_block |-> 0, next_block |-> 0]
    /\ descriptors_ = [i \in 0..(MaxDescriptors - 1) |-> NULL]
    /\ last_used_descriptor_ = -1
    /\ stuck = FALSE
    /\ hist = << >>

\* a call of the public interface, as the history records it
Call(op, path, flags, fd, buffer, n, offset, whence) ==
    [op |-> op, path |-> path, flags |-> flags, fd |-> fd, buffer |-> buffer,
     n |-> n, offset |-> offset, whence |-> whence,
     ret |-> 0, out |-> << >>, stored |-> 0, done |-> FALSE]

\* the call returned r: the program state becomes r.s.  A call that crashed
\* or never returns leaves the program stopped.  For a write the history
\* also keeps what storage_write_in_region returned (stored).
Commit(r, call) ==
    IF r.s.stuck
    THEN /\ stuck' = TRUE
         /\ hist' = Append(hist, call)
         /\ UNCHANGED << disk, pos, active_block_size_, active_block_count_,
                         current_block_index_, current_block_position_,
                         current_region_position_, current_block_,
                         descriptors_, last_used_descriptor_ >>
    ELSE /\ disk' = r.s.disk
         /\ pos' = r.s.pos
         /\ current_block_index_' = r.s.idx
         /\ current_block_position_' = r.s.bpos
         /\ current_region_position_' = r.s.rpos
         /\ current_block_' = r.s.cb
         /\ descriptors_' = r.s.desc
         /\ last_used_descriptor_' = r.s.last
         /\ hist' = Append(hist, [call EXCEPT
                                    !.ret = r.ret, !.out = r.out,
                                    !.stored = IF call.op = "write"
                                               THEN r.stored ELSE 0,
                                    !.done = TRUE])
         /\ UNCHANGED << active_block_size_, active_block_count_, stuck >>

\* the junk values a call has to be run with: all of them once it read an
\* indeterminate value, one otherwise
Junks(r) == IF r.s.ub THEN JunkBytes ELSE {0}

\* one call of the public function f with the arguments args
Do(f, args, call) ==
    /\ ~stuck
    /\ \E r0 \in {Fn(f, << St(0) >> \o args)} :
          \E junk \in Junks(r0) :
             Commit(IF junk = 0 THEN r0 ELSE Fn(f, << St(junk) >> \o args),
                    call)

\* ------------------------------------------------------------------------
\* Actions: the public operations
\* ------------------------------------------------------------------------

Open(path, flags) ==
    Do("open_virtual", << path, flags >>,
       Call("open", path, flags, -1, << >>, 0, 0, ""))

Close(fd) ==
    Do("close_virtual", << fd >>,
       Call("close", << >>, {}, fd, << >>, 0, 0, ""))

Mkdir(path) ==
    Do("mkdir_virtual", << path >>,
       Call("mkdir", path, {}, -1, << >>, 0, 0, ""))

Rmdir(path) ==
    Do("rmdir_virtual", << path >>,
       Call("rmdir", path, {}, -1, << >>, 0, 0, ""))

Unlink(path) ==
    Do("unlink_virtual", << path >>,
       Call("unlink", path, {}, -1, << >>, 0, 0, ""))

Read(fd, n) ==
    Do("read_virtual", << fd, n >>,
       Call("read", << >>, {}, fd, << >>, n, 0, ""))

Write(fd, buffer) ==
    Do("write_virtual", << fd, buffer >>,
       Call("write", << >>, {}, fd, buffer, Len(buffer), 0, ""))

Seek(fd, offset, whence) ==
    Do("seek_virtual", << fd, offset, whence >>,
       Call("seek", << >>, {}, fd, << >>, 0, offset, whence))

\* ------------------------------------------------------------------------
\* Inputs
\* ------------------------------------------------------------------------

\* names are single characters: "a" "d" "e" "f"
Ca == 97
Cd == 100
Ce == 101
Cf == 102

\* the bytes a caller writes: n bytes that differ from place to place and
\* from seed to seed, zero and bytes above 127 among them
Bytes(seed, n) == SubSeq([i \in 1..n |-> (seed * 37 + i * 29) % 256], 1, n)

\* ------------------------------------------------------------------------
\* The on-disk structure, read from the bytes of the backing file
\* (the layout create_storage_file, allocate_block and the entry writers
\* produce); used to state the properties
\* ------------------------------------------------------------------------

BlockStart(b) ==
    FIRST_BLOCK_POSITION + (active_block_size_ + BLOCK_HEADER_SIZE) * b

Blocks == 0..(active_block_count_ - 1)

\* header fields and payload of block b in the file d
HdrInUse(d, b) == d[BlockStart(b) + 1]

HdrPrev(d, b) == DecLE(SubSeq(d, BlockStart(b) + 2, BlockStart(b) + 3))

HdrNext(d, b) == DecLE(SubSeq(d, BlockStart(b) + 4, BlockStart(b) + 5))

Payload(d, b) == SubSeq(d, BlockStart(b) + BLOCK_HEADER_SIZE + 1,
                        BlockStart(b) + BLOCK_HEADER_SIZE + active_block_size_)

\* the blocks met following next from h: stops at INVALID, at an index that
\* is no block, and at a block met before
RECURSIVE ChainFrom(_, _, _)
ChainFrom(d, b, seen) ==
    IF b \notin Blocks \/ b \in seen THEN << >>
    ELSE << b >> \o ChainFrom(d, HdrNext(d, b), seen \cup {b})

Chain(d, h) == ChainFrom(d, h, {})

ChainSet(d, h) == {Chain(d, h)[i] : i \in 1..Len(Chain(d, h))}

\* the walk from h ends at a block whose next is INVALID
ChainEnds(d, h) ==
    /\ Chain(d, h) # << >>
    /\ HdrNext(d, Chain(d, h)[Len(Chain(d, h))]) = INVALID_BLOCK

\* the byte stream of the region with head h
RECURSIVE Concat(_, _, _)
Concat(d, c, i) ==
    IF i > Len(c) THEN << >> ELSE Payload(d, c[i]) \o Concat(d, c, i + 1)

RegionBytes(d, h) == Concat(d, Chain(d, h), 1)

\* the entries of the directory region h up to its END marker: slot k holds
\* bytes 5k..5k+4 of the region
EntrySize == SIZEOF_CHAR + SIZEOF_REGION + SIZEOF_REGION

RECURSIVE EntriesFrom(_, _)
EntriesFrom(bytes, k) ==
    IF EntrySize * k + EntrySize > Len(bytes)
       \/ bytes[EntrySize * k + 1] = NULL_ENTRY
    THEN << >>
    ELSE << [slot |-> k,
             type |-> bytes[EntrySize * k + 1],
             metadata_region |->
                DecLE(SubSeq(bytes, EntrySize * k + 2, EntrySize * k + 3)),
             content_region |->
                DecLE(SubSeq(bytes, EntrySize * k + 4, EntrySize * k + 5))] >>
         \o EntriesFrom(bytes, k + 1)

Entries(d, h) == EntriesFrom(RegionBytes(d, h), 0)

Live(e) == e.type \in {FILE_ENTRY, DIRECTORY_ENTRY}

\* the name stored in a metadata region
NameOf(d, e) ==
    LET b == RegionBytes(d, e.metadata_region)
        o == IF e.type = FILE_ENTRY THEN SIZEOF_SIZE_T ELSE 0
    IN IF Len(b) < o + 1 THEN << >>
       ELSE SubSeq(b, o + 2, Min(Len(b), o + 1 + b[o + 1]))

\* the length stored in a file's metadata region
StoredLength(d, metadata_region) ==
    LET b == RegionBytes(d, metadata_region)
    IN IF Len(b) < SIZEOF_SIZE_T THEN -1
       ELSE DecLen(SubSeq(b, 1, SIZEOF_SIZE_T))

\* the FILE and DIRECTORY entries reachable from the root, each with the
\* region of the directory that holds it; depth bounds the descent
RECURSIVE TreeFrom(_, _, _)
TreeFrom(d, h, depth) ==
    LET es == Entries(d, h)
        F[i \in 0..Len(es)] ==
            IF i = 0 THEN << >>
            ELSE F[i - 1]
                 \o (IF Live(es[i])
                     THEN << es[i] @@ [dir |-> h] >>
                     ELSE << >>)
                 \o (IF es[i].type = DIRECTORY_ENTRY /\ depth > 0
                     THEN TreeFrom(d, es[i].content_region, depth - 1)
                     ELSE << >>)
    IN F[Len(es)]

TreeDepth == 3

Tree(d) == TreeFrom(d, root_directory_region_, TreeDepth)

\* the heads of the live regions, with repetitions: block 0 and the
\* metadata and content region of every entry of the tree
RECURSIVE HeadsOf(_, _)
HeadsOf(tr, i) ==
    IF i > Len(tr) THEN << >>
    ELSE << tr[i].metadata_region, tr[i].content_region >> \o HeadsOf(tr, i + 1)

LiveHeads(d) == << root_directory_region_ >> \o HeadsOf(Tree(d), 1)

\* the number of live regions whose chain holds block b
Owners(d, b) ==
    Cardinality({i \in 1..Len(LiveHeads(d)) : b \in ChainSet(d, LiveHeads(d)[i])})

FreeBlocks(d) == {b \in Blocks : HdrInUse(d, b) = BLOCK_NOT_IN_USE_INDICATOR}

\* the history
LastCall == hist[Len(hist)]

\* the components of a path between its slashes
RECURSIVE Split(_)
Split(path) ==
    LET sl == {i \in 1..Len(path) : path[i] = SLASH}
    IN IF sl = {} THEN << path >>
       ELSE LET k == CHOOSE i \in sl : \A j \in sl : i <= j
            IN << SubSeq(path, 1, k - 1) >>
               \o Split(SubSeq(path, k + 1, Len(path)))

\* the first entry of type ty named name in the directory region h
Lookup(d, h, ty, name) ==
    LET es == Entries(d, h)
        hit == {i \in 1..Len(es) : es[i].type = ty /\ NameOf(d, es[i]) = name}
    IN IF hit = {} THEN [ok |-> FALSE]
       ELSE es[CHOOSE i \in hit : \A j \in hit : i <= j]
            @@ [ok |-> TRUE, dir |-> h]

\* the entry of type ty a path names: every component but the last names a
\* DIRECTORY entry, the last an entry of type ty
RECURSIVE ResolveFrom(_, _, _, _, _)
ResolveFrom(d, h, comps, i, ty) ==
    IF i = Len(comps) THEN Lookup(d, h, ty, comps[i])
    ELSE LET e == Lookup(d, h, DIRECTORY_ENTRY, comps[i])
         IN IF e.ok THEN ResolveFrom(d, e.content_region, comps, i + 1, ty)
            ELSE [ok |-> FALSE]

Resolve(d, path, ty) ==
    ResolveFrom(d, root_directory_region_, Split(path), 1, ty)

\* the bytes a region can hold once every free block has joined its chain
Capacity(d, h) ==
    active_block_size_
    * (Cardinality(ChainSet(d, h)) + Cardinality(FreeBlocks(d)))

\* ------------------------------------------------------------------------
\* Round trips on a freshly formatted file system
\* ------------------------------------------------------------------------

BlockCountRT == 6
MaxLenRT == 32
PathsRT == {<< Cf >>, << Cf, Ca >>}
SeedsRT == {1, 2}

InitRT == InitWith(BlockCountRT)

\* create a new file
CreateRT ==
    /\ hist = << >>
    /\ \E path \in PathsRT : Open(path, {"O_CREAT"})

\* one write of a byte sequence, short or too long for the free blocks
WriteRT ==
    /\ Len(hist) = 1
    /\ \E seed \in SeedsRT, n \in 0..MaxLenRT : Write(hist[1].ret, Bytes(seed, n))

\* back to offset 0 on the same descriptor
RewindRT ==
    /\ Len(hist) = 2
    /\ Seek(hist[1].ret, 0, "SEEK_SET")

\* or close ...
CloseRT ==
    /\ Len(hist) = 2
    /\ Close(hist[1].ret)

\* ... and reopen
ReopenRT ==
    /\ Len(hist) = 3
    /\ hist[3].op = "close"
    /\ Open(hist[1].path, {})

\* read back as many bytes as were written
ReadRT ==
    /\ \/ Len(hist) = 3 /\ hist[3].op = "seek"
       \/ Len(hist) = 4 /\ hist[4].op = "open"
    /\ Read(hist[Len(hist)].ret, hist[2].n)

NextRT == CreateRT \/ WriteRT \/ RewindRT \/ CloseRT \/ ReopenRT \/ ReadRT

SpecRT == InitRT /\ [][NextRT]_vars

\* the run so far is: create a new file, write B, rewind (or close and
\* reopen), read Len(B) bytes
RoundTripDone ==
    /\ Len(hist) >= 4
    /\ hist[1].op = "open" /\ hist[1].ret >= 0
    /\ hist[2].op = "write"
    /\ hist[Len(hist)].op = "read"
    /\ hist[Len(hist)].done

\* B fits in the free blocks
FitsRT ==
    LET e == Resolve(disk, hist[1].path, FILE_ENTRY)
    IN e.ok /\ hist[2].n <= Capacity(disk, e.content_region)

\* C1: on a freshly formatted file system, after creating a new file with
\* O_CREAT, writing once a byte sequence B that fits in the free blocks, and
\* seeking to offset 0 (or closing and reopening), a read of Len(B) bytes
\* returns Len(B) and yields exactly B.
C1_RoundTrip ==
    (RoundTripDone /\ FitsRT)
    => /\ LastCall.ret = Len(hist[2].buffer)
       /\ LastCall.out = hist[2].buffer

\* C1 witness: a round trip through close and reopen of a sequence that
\* fills the free blocks to the last byte
C1_Witness ==
    /\ RoundTripDone /\ FitsRT
    /\ Len(hist) = 5
    /\ hist[2].n = Capacity(disk, Resolve(disk, hist[1].path,
                                          FILE_ENTRY).content_region)
    /\ LastCall.out = hist[2].buffer

\* ------------------------------------------------------------------------
\* One file, one descriptor: open, close, read, write and seek in any order
\* ------------------------------------------------------------------------

BlockCountIO == 6
MaxOpsIO == 5
FlagsIO == {{"O_CREAT"}, {"O_TRUNC"}}
WriteLensIO == {2, 31}
ReadLensIO == {2}
SeeksIO == {<< 0, "SEEK_SET" >>, << 1, "SEEK_SET" >>}

Init == InitWith(BlockCountIO)

MoreIO == Len(hist) < MaxOpsIO

OpenIO == MoreIO /\ \E flags \in FlagsIO : Open(<< Cf >>, flags)

CloseIO == MoreIO /\ Close(0)

WriteIO == MoreIO /\ \E n \in WriteLensIO : Write(0, Bytes(1, n))

ReadIO == MoreIO /\ \E n \in ReadLensIO : Read(0, n)

SeekIO == MoreIO /\ \E sk \in SeeksIO : Seek(0, sk[1], sk[2])

Next == OpenIO \/ CloseIO \/ WriteIO \/ ReadIO \/ SeekIO

Spec == Init /\ [][Next]_vars

\* ------------------------------------------------------------------------
\* Appending at the end of a new file
\* ------------------------------------------------------------------------

BlockCountEnd == 6
MaxLenEnd == 12
MaxAppendEnd == 2

InitEnd == InitWith(BlockCountEnd)

CreateEnd ==
    /\ hist = << >>
    /\ Open(<< Cf >>, {"O_CREAT"})

\* n bytes into the fresh file
FirstWriteEnd ==
    /\ Len(hist) = 1
    /\ \E seed \in SeedsRT, n \in 1..MaxLenEnd :
          Write(hist[1].ret, Bytes(seed, n))

SeekEnd ==
    /\ Len(hist) = 2
    /\ Seek(hist[1].ret, 0, "SEEK_END")

\* m more bytes
AppendEnd ==
    /\ Len(hist) = 3
    /\ \E m \in 1..MaxAppendEnd : Write(hist[1].ret, Bytes(3, m))

RewindEnd ==
    /\ Len(hist) = 4
    /\ Seek(hist[1].ret, 0, "SEEK_SET")

\* read the first n bytes back
ReadEnd ==
    /\ Len(hist) = 5
    /\ Read(hist[1].ret, hist[2].n)

NextEnd ==
    CreateEnd \/ FirstWriteEnd \/ SeekEnd \/ AppendEnd \/ RewindEnd \/ ReadEnd

SpecEnd == InitEnd /\ [][NextEnd]_vars

\* ------------------------------------------------------------------------
\* Steps: the call a step makes and what it finds
\* ------------------------------------------------------------------------

\* the step is one call of the public function op, which returned
Returned(op) ==
    /\ Len(hist') = Len(hist) + 1
    /\ hist'[Len(hist')].op = op
    /\ hist'[Len(hist')].done

\* the call the step makes
ThisCall == hist'[Len(hist')]

\* what read_virtual would return now for n bytes on descriptor fd
ReadNow(fd, n) == Fn("read_virtual", << St(0), fd, n >>).ret

\* ------------------------------------------------------------------------
\* C4: O_TRUNC on an existing file that holds data
\* ------------------------------------------------------------------------

\* the step is a successful open with O_TRUNC of an existing file whose
\* stored length is above 0
TruncatesData ==
    /\ Returned("open")
    /\ "O_TRUNC" \in ThisCall.flags
    /\ ThisCall.ret >= 0
    /\ Resolve(disk, ThisCall.path, FILE_ENTRY).ok
    /\ StoredLength(disk, Resolve(disk, ThisCall.path,
                                  FILE_ENTRY).metadata_region) > 0

\* what C4 promises of the state after such a step
Truncated ==
    LET fd == ThisCall.ret
        e  == Resolve(disk', ThisCall.path, FILE_ENTRY)
    IN /\ descriptors_'[fd].length = 0
       /\ e.ok
       /\ descriptors_'[fd].content_region = e.content_region
       /\ HdrInUse(disk', e.content_region) = BLOCK_IN_USE_INDICATOR
       /\ StoredLength(disk', e.metadata_region) = 0
       /\ \A k \in 0..(MaxDescriptors - 1), n \in ReadLensIO :
             k = fd => ReadNow(k, n)' = 0

\* C4: when open_virtual with O_TRUNC succeeds on an existing file that
\* holds data, the returned descriptor has length 0 and references the
\* freshly allocated content region, the length persisted in the metadata
\* region is 0, and read_virtual on that descriptor returns 0 bytes.
C4_Truncate == [][TruncatesData => Truncated]_vars

\* ------------------------------------------------------------------------
\* C5: a seek, then a read or a write
\* ------------------------------------------------------------------------

\* the bytes of the file behind descriptor fd, as its content chain holds
\* them in the disk image d
FileBytes(d, fd) == RegionBytes(d, descriptors_[fd].content_region)

\* the step is a read or a write on fd right after a seek on fd returned
SeekThenIO(fd) ==
    /\ hist # << >>
    /\ LastCall.op = "seek" /\ LastCall.fd = fd /\ LastCall.ret >= 0
    /\ descriptors_[fd].open
    /\ Returned("read") \/ Returned("write")
    /\ ThisCall.fd = fd

\* the step transfers its bytes at file offset p: a read delivers the bytes
\* the file holds from p on, a write that fits stores its bytes from p on
TransfersAt(fd, p) ==
    /\ ThisCall.op = "read"
       => SubSeq(ThisCall.out, 1, ThisCall.ret)
          = SubSeq(FileBytes(disk, fd), p + 1, p + ThisCall.ret)
    /\ (ThisCall.op = "write"
        /\ p + ThisCall.n
           <= Capacity(disk, descriptors_[fd].content_region))
       => SubSeq(FileBytes(disk', fd), p + 1, p + ThisCall.n)
          = ThisCall.buffer

\* C5: after seek_virtual(fd, off, whence) returns position p, the next
\* read_virtual or write_virtual on fd transfers bytes starting at file
\* offset p, whatever was done on fd before, a read or a non-extending write
\* right before the seek included.
C5_SeekThenIO ==
    [][\A fd \in 0..(MaxDescriptors - 1) :
          SeekThenIO(fd) => TransfersAt(fd, LastCall.ret)]_vars

\* ------------------------------------------------------------------------
\* C7: a write that runs out of free blocks
\* ------------------------------------------------------------------------

\* the step is a write on the open descriptor fd of which the engine stored
\* fewer bytes than asked, no block being left to allocate
ShortWrite(fd) ==
    /\ Returned("write")
    /\ ThisCall.fd = fd
    /\ descriptors_[fd].open
    /\ ThisCall.stored < ThisCall.n
    /\ FreeBlocks(disk') = {}

\* what C7 promises of such a step
ShortCount(fd) ==
    /\ ThisCall.ret = ThisCall.stored
    /\ descriptors_'[fd].reader_position
       = descriptors_[fd].reader_position + ThisCall.stored
    /\ descriptors_'[fd].length
       <= Max(descriptors_[fd].length,
              write_virtual_length(descriptors_[fd].reader_position
                                   + ThisCall.stored))
    /\ StoredLength(disk', descriptors_[fd].metadata_region)
       = descriptors_'[fd].length

\* C7: when a write_virtual of n bytes exhausts the free blocks before all n
\* bytes are stored, it returns the number of bytes actually stored (less
\* than n), advances the descriptor cursor by that number only, and the
\* stored length reflects only the bytes actually written.
C7_ShortWrite ==
    [][\A fd \in 0..(MaxDescriptors - 1) :
          ShortWrite(fd) => ShortCount(fd)]_vars

\* ------------------------------------------------------------------------
\* C6: what a write leaves alone
\* ------------------------------------------------------------------------

\* the run so far is: create a new file, write n bytes, seek to the end,
\* write m bytes, seek to offset 0, read n bytes
AppendedAndRead ==
    /\ Len(hist) = 6
    /\ hist[2].op = "write" /\ hist[2].n >= 1
    /\ hist[3].op = "seek" /\ hist[3].whence = "SEEK_END"
    /\ hist[4].op = "write" /\ hist[4].n >= 1
    /\ hist[6].op = "read" /\ hist[6].done

\* C6: a write_virtual of m bytes at cursor c stores its bytes at offsets
\* c..c+m-1 and leaves every other file byte as written before; so after
\* writing n >= 1 bytes to a fresh file, seeking to the end, writing m >= 1
\* bytes and reading from offset 0, the first n bytes are the n bytes first
\* written, for every n (n + 1 a multiple of the block size included).
C6_WriteFrame ==
    AppendedAndRead
    => /\ hist[6].ret = hist[2].n
       /\ hist[6].out = hist[2].buffer

\* ------------------------------------------------------------------------
\* Directories and files in them: mkdir, rmdir, open, close and unlink, by
\* callers that close a descriptor before they unlink and never create a
\* name twice
\* ------------------------------------------------------------------------

BlockCountDir == 12
MaxOpsDir == 5
DirsDir == {<< Cd >>, << Cd, SLASH, Ce >>}
FilesDir == {<< Cf >>, << Cd, SLASH, Cf >>}

InitDir == InitWith(BlockCountDir)

MoreDir == Len(hist) < MaxOpsDir

\* the directory was made before
MadeBefore(path) ==
    \E i \in 1..Len(hist) :
       hist[i].op = "mkdir" /\ hist[i].path = path /\ hist[i].ret = 0

NoneOpen == \A i \in 0..(MaxDescriptors - 1) : ~descriptors_[i].open

MkdirDir ==
    /\ MoreDir
    /\ \E path \in DirsDir : ~MadeBefore(path) /\ Mkdir(path)

RmdirDir == MoreDir /\ \E path \in DirsDir : Rmdir(path)

OpenDir ==
    /\ MoreDir
    /\ NoneOpen
    /\ \E path \in FilesDir : Open(path, {"O_CREAT"})

CloseDir == MoreDir /\ ~NoneOpen /\ Close(0)

UnlinkDir ==
    /\ MoreDir
    /\ NoneOpen
    /\ \E path \in FilesDir : Unlink(path)

NextDir == MkdirDir \/ RmdirDir \/ OpenDir \/ CloseDir \/ UnlinkDir

SpecDir == InitDir /\ [][NextDir]_vars

\* ------------------------------------------------------------------------
\* C2, C3: the blocks and the chains of the live regions
\* ------------------------------------------------------------------------

\* C2: after every public operation every block is either free (in_use = 0)
\* and on the chain of no live region head, or allocated and on the chain of
\* exactly one live region head (block 0, or the metadata or content region
\* of a FILE or DIRECTORY entry reachable from the root): no block is
\* allocated but unreachable, none free but referenced, none in two regions.
C2_BlockPartition ==
    \A b \in Blocks :
       IF HdrInUse(disk, b) = BLOCK_NOT_IN_USE_INDICATOR
       THEN Owners(disk, b) = 0
       ELSE Owners(disk, b) = 1

\* the chain of head h is well formed
WellFormed(d, h) ==
    LET c == Chain(d, h)
    IN /\ h \in Blocks
       /\ HdrPrev(d, h) = INVALID_BLOCK
       /\ ChainEnds(d, h)
       /\ \A i \in 1..Len(c) : HdrInUse(d, c[i]) = BLOCK_IN_USE_INDICATOR
       /\ \A i \in 2..Len(c) : HdrPrev(d, c[i]) = c[i - 1]

\* C3: after every public operation, for every live region head h,
\* h.prev = INVALID, following next from h reaches a block with
\* next = INVALID in finitely many steps (no cycle), every block on the walk
\* has in_use = 1, and each successor's prev is its predecessor's index.
C3_ChainsWellFormed ==
    \A i \in 1..Len(LiveHeads(disk)) : WellFormed(disk, LiveHeads(disk)[i])

\* ------------------------------------------------------------------------
\* C8, C9: rmdir
\* ------------------------------------------------------------------------

\* the directory regions reachable from the root in the disk image d
DirTree(d) ==
    {root_directory_region_}
    \cup {Tree(d)[i].content_region :
            i \in {j \in 1..Len(Tree(d)) : Tree(d)[j].type = DIRECTORY_ENTRY}}

\* the bytes of slot k of the directory region h
SlotBytes(d, h, k) ==
    SubSeq(RegionBytes(d, h), EntrySize * k + 1, EntrySize * k + EntrySize)

\* the slots of the directory region h
Slots(d, h) == 0..((Len(RegionBytes(d, h)) \div EntrySize) - 1)

\* the bytes of the header of block b
HeaderBytes(d, b) == SubSeq(d, BlockStart(b) + 1, BlockStart(b) + BLOCK_HEADER_SIZE)

\* the DIRECTORY entry the path of the step's call names before the step
Target == Resolve(disk, ThisCall.path, DIRECTORY_ENTRY)

\* the step is a successful rmdir
RmdirDone == Returned("rmdir") /\ ThisCall.ret = 0

\* the step changes to UNUSED the entry e and changes no other slot of a
\* directory that stays
OnlyEntryUnused(e) ==
    /\ e.ok
    /\ \A h \in DirTree(disk) \ {e.content_region} :
          \A k \in Slots(disk, h) :
             IF h = e.dir /\ k = e.slot
             THEN SlotBytes(disk', h, k)[1] = UNUSED_ENTRY
             ELSE SlotBytes(disk', h, k) = SlotBytes(disk, h, k)

\* C8: a successful rmdir_virtual(path) changes to UNUSED exactly the
\* DIRECTORY entry of the removed directory inside its containing directory,
\* for paths of every depth, and leaves every other directory entry, those
\* of the root included, unchanged.
C8_RmdirTarget == [][RmdirDone => OnlyEntryUnused(Target)]_vars

\* the directory of entry e holds a FILE or DIRECTORY entry
NonEmpty(e) ==
    \E i \in 1..Len(Entries(disk, e.content_region)) :
       Live(Entries(disk, e.content_region)[i])

\* the directory of entry e holds UNUSED slots only before its end
OnlyUnused(e) ==
    \A i \in 1..Len(Entries(disk, e.content_region)) :
       Entries(disk, e.content_region)[i].type = UNUSED_ENTRY

\* the step changes no block header and no slot of a directory
NothingChanged ==
    /\ \A b \in Blocks : HeaderBytes(disk', b) = HeaderBytes(disk, b)
    /\ \A h \in DirTree(disk) :
          \A k \in Slots(disk, h) :
             SlotBytes(disk', h, k) = SlotBytes(disk, h, k)

BlockCountReclaim == 6
MaxOpsReclaim == 6
MaxLenReclaim == 30
LensReclaim == {1, 15, MaxLenReclaim}

InitReclaim == InitWith(BlockCountReclaim)

MoreReclaim == Len(hist) < MaxOpsReclaim

OpenReclaim == MoreReclaim /\ NoneOpen /\ Open(<< Cf >>, {"O_CREAT"})

WriteReclaim ==
    /\ MoreReclaim
    /\ ~NoneOpen
    /\ \E seed \in SeedsRT, n \in LensReclaim : Write(0, Bytes(seed, n))

CloseReclaim == MoreReclaim /\ ~NoneOpen /\ Close(0)

UnlinkReclaim == MoreReclaim /\ NoneOpen /\ Unlink(<< Cf >>)

NextReclaim == OpenReclaim \/ WriteReclaim \/ CloseReclaim \/ UnlinkReclaim

SpecReclaim == InitReclaim /\ [][NextReclaim]_vars

\* ------------------------------------------------------------------------
\* C10: unlink gives the blocks of a file back
\* ------------------------------------------------------------------------

\* the FILE entry the path of the step's call names before the step
TargetFile == Resolve(disk, ThisCall.path, FILE_ENTRY)

\* the step is a successful unlink of a file no descriptor is open on
UnlinkDone ==
    /\ Returned("unlink")
    /\ ThisCall.ret = 0
    /\ NoneOpen
    /\ TargetFile.ok

\* the step leaves the entry e UNUSED and every block of its two chains free
Reclaimed(e) ==
    /\ SlotBytes(disk', e.dir, e.slot)[1] = UNUSED_ENTRY
    /\ \A b \in ChainSet(disk, e.content_region)
                \cup ChainSet(disk, e.metadata_region) :
          HdrInUse(disk', b) = BLOCK_NOT_IN_USE_INDICATOR

\* the last six calls: a new file was created, n bytes were written to it
\* and stored in full, it was closed and unlinked, a file was created again
\* and as many bytes were written to it
SecondFileWritten(k) ==
    /\ k >= 0 /\ Len(hist) = k + 6
    /\ hist[k + 1].op = "open" /\ hist[k + 1].ret >= 0
    /\ hist[k + 2].op = "write" /\ hist[k + 2].fd = hist[k + 1].ret
    /\ hist[k + 2].stored = hist[k + 2].n
    /\ hist[k + 3].op = "close" /\ hist[k + 3].fd = hist[k + 1].ret
    /\ hist[k + 4].op = "unlink" /\ hist[k + 4].path = hist[k + 1].path
    /\ hist[k + 4].ret = 0
    /\ hist[k + 5].op = "open" /\ hist[k + 5].path = hist[k + 1].path
    /\ "O_CREAT" \in hist[k + 5].flags
    /\ hist[k + 6].op = "write" /\ hist[k + 6].n = hist[k + 2].n
    /\ hist[k + 6].done

\* the second file exists and holds the bytes of the last write in full
SecondFileFull(k) ==
    /\ hist[k + 5].ret >= 0
    /\ hist[k + 6].fd = hist[k + 5].ret
       => /\ hist[k + 6].stored = hist[k + 6].n
          /\ SubSeq(FileBytes(disk, hist[k + 5].ret), 1, hist[k + 6].n)
             = hist[k + 6].buffer

\* C10: after a new file was created, N bytes were written to it, it was
\* closed and unlink_virtual was called on it, the file's entry is UNUSED
\* and every block of its content chain and of its metadata chain has
\* in_use = 0; a second new file can then be created and takes N bytes in
\* full.
C10_UnlinkReclaims ==
    /\ [][UnlinkDone => Reclaimed(TargetFile)]_vars
    /\ [](\A k \in 0..MaxOpsReclaim :
             SecondFileWritten(k) => SecondFileFull(k))

\* C10 witness: a file filled to the last free byte was closed and unlinked,
\* and a second file then took as many bytes
C10_Witness ==
    /\ SecondFileWritten(0)
    /\ SecondFileFull(0)
    /\ hist[2].n = MaxLenReclaim
    /\ hist[6].fd = hist[5].ret
    /\ FreeBlocks(disk) = {}

\* ------------------------------------------------------------------------
\* Opening one file with every combination of flags the callers use, with
\* the descriptor table filling up
\* ------------------------------------------------------------------------

BlockCountOpen == 8
MaxOpsOpen == 4
FlagsOpen == {{}, {"O_CREAT"}, {"O_CREAT", "O_EXCL"}, {"O_EXCL"},
              {"O_APPEND"}, {"O_TRUNC"}}

InitOpen == InitWith(BlockCountOpen)

MoreOpen == Len(hist) < MaxOpsOpen

Descriptors == 0..(MaxDescriptors - 1)

OpenOpen == MoreOpen /\ \E flags \in FlagsOpen : Open(<< Cf >>, flags)

\* another file is created
OpenOtherOpen == MoreOpen /\ Open(<< Ca >>, {"O_CREAT"})

CloseOpen ==
    /\ MoreOpen
    /\ \E fd \in Descriptors : descriptors_[fd].open /\ Close(fd)

\* the first write or the write that follows an open
WriteOpen ==
    /\ MoreOpen
    /\ hist # << >> /\ LastCall.op = "open"
    /\ \E fd \in Descriptors :
          descriptors_[fd].open /\ Write(fd, Bytes(Len(hist), 2))

\* the read that follows an open
ReadOpen ==
    /\ MoreOpen
    /\ hist # << >> /\ LastCall.op = "open"
    /\ \E fd \in Descriptors : descriptors_[fd].open /\ Read(fd, 2)

NextOpen == OpenOpen \/ OpenOtherOpen \/ CloseOpen \/ WriteOpen \/ ReadOpen

SpecOpen == InitOpen /\ [][NextOpen]_vars

\* the step is a call of open_virtual that returned
Opens == Returned("open")

\* the FILE entry the path of the step's open names before the step
Existing == Resolve(disk, ThisCall.path, FILE_ENTRY)

\* some slot of the descriptor table is free before the step
SlotFree == \E k \in Descriptors : ~descriptors_[k].open

\* ------------------------------------------------------------------------
\* C12: APPEND
\* ------------------------------------------------------------------------

\* the step opens an existing file with O_APPEND and gets the descriptor k
OpensAppend(k) ==
    /\ Opens
    /\ "O_APPEND" \in ThisCall.flags
    /\ Existing.ok
    /\ ThisCall.ret = k

\* the last call opened an existing file of length len with O_APPEND and
\* got the descriptor k
OpenedAppend(k, len) ==
    /\ hist # << >>
    /\ LastCall.op = "open" /\ "O_APPEND" \in LastCall.flags
    /\ LastCall.ret = k
    /\ descriptors_[k].open
    /\ descriptors_[k].length = len
    /\ len > 0

\* C12: a descriptor returned by open_virtual with O_APPEND on an existing
\* file of length L has its cursor equal to L, so the first write_virtual
\* through it stores its bytes from offset L on and the first read_virtual
\* returns 0.
C12_Append ==
    [][\A k \in Descriptors :
          /\ OpensAppend(k)
             => descriptors_'[k].reader_position
                = StoredLength(disk, Existing.metadata_region)
          /\ \A len \in 1..(BlockCountOpen * DEFAULT_BLOCK_SIZE) :
                OpenedAppend(k, len)
                => /\ (Returned("read") /\ ThisCall.fd = k)
                      => ThisCall.ret = 0
                   /\ (Returned("write") /\ ThisCall.fd = k)
                      => SubSeq(FileBytes(disk', k), len + 1,
                                len + ThisCall.n) = ThisCall.buffer]_vars

\* ------------------------------------------------------------------------
\* C13: EXCLUSIVE
\* ------------------------------------------------------------------------

\* the step opens an existing file with O_EXCL while a slot is free
OpensExclusive ==
    /\ Opens
    /\ "O_EXCL" \in ThisCall.flags
    /\ Existing.ok
    /\ SlotFree

\* C13: open_virtual on a path naming an existing file with O_EXCL returns
\* -1 when O_CREAT is set as well, and ignores O_EXCL when O_CREAT is not
\* set: it opens the file and returns a descriptor.
C13_Exclusive ==
    [][OpensExclusive
       => IF "O_CREAT" \in ThisCall.flags
          THEN ThisCall.ret = -1
          ELSE \E k \in Descriptors :
                  /\ ThisCall.ret = k
                  /\ descriptors_'[k].open
                  /\ descriptors_'[k].content_region
                     = Existing.content_region]_vars

\* ------------------------------------------------------------------------
\* C14: a file is created only by CREATE of a missing file
\* ------------------------------------------------------------------------

\* the step may create: O_CREAT is set and no FILE entry has the name
MayCreate == "O_CREAT" \in ThisCall.flags /\ ~Existing.ok

\* C14: open_virtual adds a directory entry and allocates a metadata and a
\* content region only when O_CREAT is set and the containing directory has
\* no FILE entry with the final name; with O_CREAT on an existing file it
\* returns a descriptor for the existing regions and adds no entry; without
\* O_CREAT on a missing file it returns -1 and changes neither the
\* descriptor table nor any block.  (The content region O_TRUNC allocates
\* anew is the subject of C4 and is left out here.)
C14_CreateOnlyWhenMissing ==
    [][Opens
       => /\ ~MayCreate
             => /\ Tree(disk') = Tree(disk)
                /\ "O_TRUNC" \notin ThisCall.flags
                   => FreeBlocks(disk') = FreeBlocks(disk)
          /\ ("O_CREAT" \in ThisCall.flags /\ Existing.ok)
             => \A k \in Descriptors :
                   ThisCall.ret = k
                   => /\ descriptors_'[k].content_region
                         = Existing.content_region
                      /\ descriptors_'[k].metadata_region
                         = Existing.metadata_region
          /\ ("O_CREAT" \notin ThisCall.flags /\ ~Existing.ok)
             => /\ ThisCall.ret = -1
                /\ descriptors_' = descriptors_
                /\ disk' = disk]_vars

\* C14 witness: a file was created, then opened again with O_CREAT, and an
\* open without O_CREAT had failed before it existed
C14_Witness ==
    /\ Len(hist) >= 3
    /\ hist[1].op = "open" /\ hist[1].flags = {} /\ hist[1].ret = -1
    /\ hist[2].op = "open" /\ hist[2].flags = {"O_CREAT"} /\ hist[2].ret = 0
    /\ hist[3].op = "open" /\ hist[3].flags = {"O_CREAT"} /\ hist[3].ret = 1
    /\ descriptors_[1].content_region = descriptors_[0].content_region
    /\ Len(Tree(disk)) = 1

\* ------------------------------------------------------------------------
\* Opening and closing until the descriptor table is full
\* ------------------------------------------------------------------------

BlockCountSlots == 8
MaxOpsSlots == 5
FlagsSlots == {{}, {"O_CREAT"}}

InitSlots == InitWith(BlockCountSlots)

MoreSlots == Len(hist) < MaxOpsSlots

OpenSlots == MoreSlots /\ \E flags \in FlagsSlots : Open(<< Cf >>, flags)

\* another file is created
OpenOtherSlots == MoreSlots /\ Open(<< Ca >>, {"O_CREAT"})

\* any slot is closed, open or not
CloseSlots == MoreSlots /\ \E fd \in Descriptors : Close(fd)

NextSlots == OpenSlots \/ OpenOtherSlots \/ CloseSlots

SpecSlots == InitSlots /\ [][NextSlots]_vars

\* ------------------------------------------------------------------------
\* C20: descriptor allocation
\* ------------------------------------------------------------------------

\* C20: a successful open_virtual returns the lowest-numbered slot that is
\* not open; when every slot is open it returns -1 and creates no file even
\* with O_CREAT; every failed open leaves the descriptor table unchanged.
C20_DescriptorAllocation ==
    [][Opens
       => /\ \A k \in Descriptors :
                ThisCall.ret = k
                => /\ ~descriptors_[k].open
                   /\ \A j \in 0..(k - 1) : descriptors_[j].open
                   /\ descriptors_'[k].open
          /\ ThisCall.ret \in Descriptors \cup {-1}
          /\ ~SlotFree => (ThisCall.ret = -1 /\ disk' = disk)
          /\ ThisCall.ret = -1 => descriptors_' = descriptors_]_vars

\* C20 witness: with every slot open an open with O_CREAT failed, then
\* slot 0 was closed and the next open got slot 0 again
C20_Witness ==
    /\ Len(hist) = MaxDescriptors + 3
    /\ \A i \in 1..MaxDescriptors :
          hist[i].op = "open" /\ hist[i].path = << Cf >> /\ hist[i].ret = i - 1
    /\ hist[MaxDescriptors + 1].op = "open"
    /\ hist[MaxDescriptors + 1].path = << Ca >>
    /\ "O_CREAT" \in hist[MaxDescriptors + 1].flags
    /\ hist[MaxDescriptors + 1].ret = -1
    /\ hist[MaxDescriptors + 2].op = "close"
    /\ hist[MaxDescriptors + 2].fd = 0
    /\ hist[MaxDescriptors + 3].op = "open"
    /\ hist[MaxDescriptors + 3].path = << Cf >>
    /\ hist[MaxDescriptors + 3].ret = 0
    /\ descriptors_[1].open
    /\ ~Resolve(disk, << Ca >>, FILE_ENTRY).ok

\* ------------------------------------------------------------------------
\* Two descriptors on one file: reads, writes and seeks through either,
\* after the file was created and three bytes were written to it
\* ------------------------------------------------------------------------

BlockCountCursor == 6
MaxOpsCursor == 5
OffsetsCursor == {-1, 9}
WhencesCursor == {"SEEK_SET", "SEEK_CUR", "SEEK_END"}
ReadLensCursor == {1, 5}

InitCursor == InitWith(BlockCountCursor)

MoreCursor == Len(hist) >= 2 /\ Len(hist) < MaxOpsCursor

CreateCursor == hist = << >> /\ Open(<< Cf >>, {"O_CREAT"})

FirstWriteCursor == Len(hist) = 1 /\ Write(0, Bytes(1, 3))

OpenCursor ==
    /\ MoreCursor
    /\ \E flags \in {{}, {"O_TRUNC"}} : Open(<< Cf >>, flags)

CloseCursor ==
    /\ MoreCursor
    /\ \E fd \in Descriptors : descriptors_[fd].open /\ Close(fd)

ReadCursor ==
    /\ MoreCursor
    /\ \E fd \in Descriptors, n \in ReadLensCursor :
          descriptors_[fd].open /\ Read(fd, n)

WriteCursor ==
    /\ MoreCursor
    /\ \E fd \in Descriptors :
          descriptors_[fd].open /\ Write(fd, Bytes(Len(hist), 2))

SeekCursor ==
    /\ MoreCursor
    /\ \E fd \in Descriptors, offset \in OffsetsCursor,
          whence \in WhencesCursor :
          descriptors_[fd].open /\ Seek(fd, offset, whence)

NextCursor ==
    \/ CreateCursor \/ FirstWriteCursor \/ OpenCursor \/ CloseCursor
    \/ ReadCursor \/ WriteCursor \/ SeekCursor

SpecCursor == InitCursor /\ [][NextCursor]_vars

\* ------------------------------------------------------------------------
\* C17: the cursor stays within the file
\* ------------------------------------------------------------------------

\* C17: for every open descriptor 0 <= cursor <= length, after every
\* sequence of open, read, write, seek and close, operations through other
\* descriptors on the same file included.
C17_CursorBound ==
    \A k \in Descriptors :
       descriptors_[k].open
       => /\ 0 <= descriptors_[k].reader_position
          /\ descriptors_[k].reader_position <= descriptors_[k].length

\* C17 witness: two descriptors are open on the file and the second was
\* used to write, which left it at its end
C17_Witness ==
    /\ Len(hist) = 4
    /\ hist[3].op = "open" /\ hist[3].ret = 1
    /\ hist[4].op = "write" /\ hist[4].fd = 1
    /\ descriptors_[0].open /\ descriptors_[1].open
    /\ descriptors_[0].content_region = descriptors_[1].content_region
    /\ descriptors_[0].reader_position > 0
    /\ descriptors_[1].reader_position = 2

\* ------------------------------------------------------------------------
\* C18: reading at and past the end of the file
\* ------------------------------------------------------------------------

\* the step is a read_virtual on the open descriptor k
ReadsOn(k) ==
    /\ descriptors_[k].open
    /\ Returned("read")
    /\ ThisCall.fd = k

\* C18: read_virtual(fd, buf, n) on a valid descriptor returns exactly
\* min(n, length - cursor), advances the cursor by exactly that amount, and
\* returns 0 when cursor = length.
C18_ReadAtEnd ==
    [][\A k \in Descriptors :
          ReadsOn(k)
          => /\ ThisCall.ret
                = Min(ThisCall.n,
                      descriptors_[k].length - descriptors_[k].reader_position)
             /\ descriptors_'[k].reader_position
                = descriptors_[k].reader_position + ThisCall.ret
             /\ descriptors_[k].reader_position = descriptors_[k].length
                => ThisCall.ret = 0]_vars

\* C18 witness: a read of 5 bytes one byte before the end returned 1, and
\* the read after it returned 0
C18_Witness ==
    /\ Len(hist) = 4
    /\ hist[3].op = "read" /\ hist[3].fd = 0 /\ hist[3].n = 5
    /\ hist[3].ret = 1
    /\ hist[4].op = "read" /\ hist[4].fd = 0 /\ hist[4].ret = 0
    /\ descriptors_[0].reader_position = descriptors_[0].length

\* ------------------------------------------------------------------------
\* C19: what seek_virtual returns and what it leaves alone
\* ------------------------------------------------------------------------

\* the step is a seek_virtual on the open descriptor k
SeeksOn(k) ==
    /\ descriptors_[k].open
    /\ Returned("seek")
    /\ ThisCall.fd = k

\* the position the call's offset is counted from
SeekBase(k, whence) ==
    CASE whence = "SEEK_SET" -> 0
      [] whence = "SEEK_CUR" -> descriptors_[k].reader_position
      [] whence = "SEEK_END" -> descriptors_[k].length

\* clamp(p, 0, length)
Clamp(p, length) == Max(0, Min(p, length))

\* C19: seek_virtual(fd, off, whence) on a valid descriptor returns and
\* stores clamp(base + off, 0, length), with base 0 for SEEK_SET, the cursor
\* for SEEK_CUR and length for SEEK_END, and changes nothing else: no other
\* descriptor, no length, no block on disk, and not the engine cursor.
C19_SeekClamp ==
    [][\A k \in Descriptors, whence \in WhencesCursor,
          offset \in OffsetsCursor :
          (SeeksOn(k) /\ ThisCall.whence = whence /\ ThisCall.offset = offset)
          => /\ ThisCall.ret
                = Clamp(SeekBase(k, whence) + offset, descriptors_[k].length)
             /\ descriptors_'
                = [descriptors_ EXCEPT ![k].reader_position = ThisCall.ret]
             /\ disk' = disk
             /\ UNCHANGED << pos, current_block_index_,
                             current_block_position_,
                             current_region_position_, current_block_,
                             last_used_descriptor_ >>]_vars

\* C19 witness: a seek to SEEK_SET -1 gave 0 and a seek to SEEK_SET 9 gave
\* the length, with the engine cursor elsewhere
C19_Witness ==
    /\ Len(hist) = 4
    /\ hist[3].op = "seek" /\ hist[3].whence = "SEEK_SET"
    /\ hist[3].offset = -1 /\ hist[3].ret = 0
    /\ hist[4].op = "seek" /\ hist[4].whence = "SEEK_SET"
    /\ hist[4].offset = 9 /\ hist[4].ret = descriptors_[0].length
    /\ hist[4].fd = 0 /\ hist[3].fd = 0
    /\ descriptors_[0].length = 4
    /\ current_region_position_ # descriptors_[0].reader_position

\* ------------------------------------------------------------------------
\* A directory made from blocks a file has used: one file is created,
\* written, closed and unlinked, one directory is made and removed
\* ------------------------------------------------------------------------

BlockCountReuse == 8
MaxOpsReuse == 6
LensReuse == {2, 12}

InitReuse == InitWith(BlockCountReuse)

MoreReuse == Len(hist) < MaxOpsReuse

OpenReuse == MoreReuse /\ NoneOpen /\ Open(<< Cf >>, {"O_CREAT"})

WriteReuse ==
    /\ MoreReuse
    /\ ~NoneOpen
    /\ \E n \in LensReuse : Write(0, Bytes(1, n))

CloseReuse == MoreReuse /\ ~NoneOpen /\ Close(0)

UnlinkReuse == MoreReuse /\ NoneOpen /\ Unlink(<< Cf >>)

MkdirReuse == MoreReuse /\ ~MadeBefore(<< Cd >>) /\ Mkdir(<< Cd >>)

RmdirReuse == MoreReuse /\ Rmdir(<< Cd >>)

\* a name inside the directory is looked up
LookupReuse == MoreReuse /\ NoneOpen /\ Open(<< Cd, SLASH, Cf >>, {})

NextReuse ==
    \/ OpenReuse \/ WriteReuse \/ CloseReuse \/ UnlinkReuse
    \/ MkdirReuse \/ RmdirReuse \/ LookupReuse

SpecReuse == InitReuse /\ [][NextReuse]_vars

\* ------------------------------------------------------------------------
\* C11: a directory is empty when it has just been made
\* ------------------------------------------------------------------------

\* the step is a mkdir_virtual that returned 0
MkdirDone == Returned("mkdir") /\ ThisCall.ret = 0

\* the DIRECTORY entry the step's path names after the step
MadeDirectory == Resolve(disk', ThisCall.path, DIRECTORY_ENTRY)

\* the last call was a mkdir_virtual of path that returned 0
JustMade(path) ==
    /\ hist # << >>
    /\ LastCall.op = "mkdir" /\ LastCall.path = path /\ LastCall.ret = 0

\* C11: immediately after mkdir_virtual(p) returned 0 the content region of
\* p reads as END at its first entry, so rmdir_virtual(p) returns 0 and no
\* name resolves inside p; whatever happened before, blocks given to p that
\* unlinked files or metadata had used included.
C11_FreshDirectoryEmpty ==
    [][/\ MkdirDone
          => /\ MadeDirectory.ok
             /\ RegionBytes(disk', MadeDirectory.content_region)[1]
                = NULL_ENTRY
       /\ (JustMade(<< Cd >>) /\ Returned("rmdir")
           /\ ThisCall.path = << Cd >>)
          => ThisCall.ret = 0
       /\ (JustMade(<< Cd >>) /\ Returned("open")
           /\ ThisCall.path = << Cd, SLASH, Cf >>)
          => ThisCall.ret = -1]_vars

\* ------------------------------------------------------------------------
\* A file two directories deep: some of the calls below, in this order, and
\* at most one call through a directory that does not exist
\* ------------------------------------------------------------------------

BlockCountNest == 20
NestedFile == << Cd, SLASH, Ce, SLASH, Cf >>
DataNest == Bytes(1, 5)

\* siblings "a", a file that stays open, and "f" come before "d" in the
\* root; siblings "a" and "f" come before "e" in "d"
ScriptNest ==
    << [op |-> "open", path |-> << Ca >>, flags |-> {"O_CREAT"}],
       [op |-> "mkdir", path |-> << Cf >>, flags |-> {}],
       [op |-> "mkdir", path |-> << Cd >>, flags |-> {}],
       [op |-> "mkdir", path |-> << Cd, SLASH, Ca >>, flags |-> {}],
       [op |-> "mkdir", path |-> << Cd, SLASH, Cf >>, flags |-> {}],
       [op |-> "mkdir", path |-> << Cd, SLASH, Ce >>, flags |-> {}],
       [op |-> "open", path |-> NestedFile, flags |-> {"O_CREAT"}],
       [op |-> "write", path |-> << >>, flags |-> {}],
       [op |-> "close", path |-> << >>, flags |-> {}],
       [op |-> "open", path |-> NestedFile, flags |-> {}],
       [op |-> "read", path |-> << >>, flags |-> {}] >>

\* paths through "e", which is never made in the root
MissingNest == << Ce, SLASH, Cf >>

InitNest == InitWith(BlockCountNest)

\* the call is the j-th of the script
IsScripted(call, j) ==
    /\ call.op = ScriptNest[j].op
    /\ call.path = ScriptNest[j].path
    /\ call.flags = ScriptNest[j].flags

\* the place in the script of the latest scripted call made, 0 before any
StageNest ==
    LET made == {j \in 1..Len(ScriptNest) :
                   \E i \in 1..Len(hist) : IsScripted(hist[i], j)}
    IN IF made = {} THEN 0 ELSE CHOOSE j \in made : \A k \in made : k <= j

\* the place in the script of the call that creates the file
CreateNest ==
    CHOOSE j \in 1..Len(ScriptNest) :
       ScriptNest[j].op = "open" /\ ScriptNest[j].path = NestedFile
          /\ ScriptNest[j].flags = {"O_CREAT"}

\* the j-th call of the script may be made now: directories may be left
\* out, the calls on the file follow one another
DueNest(j, op) ==
    /\ j \in 1..Len(ScriptNest)
    /\ j > StageNest
    /\ j > CreateNest => j = StageNest + 1
    /\ ScriptNest[j].op = op

MkdirNest ==
    \E j \in 1..Len(ScriptNest) :
       DueNest(j, "mkdir") /\ Mkdir(ScriptNest[j].path)

OpenNest ==
    \E j \in 1..Len(ScriptNest) :
       DueNest(j, "open") /\ Open(ScriptNest[j].path, ScriptNest[j].flags)

\* what the latest open_virtual of the nested file returned
FdNest ==
    LET opens == {i \in 1..Len(hist) :
                    hist[i].op = "open" /\ hist[i].path = NestedFile}
    IN hist[CHOOSE i \in opens : \A k \in opens : k <= i].ret

WriteNest ==
    \E j \in 1..Len(ScriptNest) : DueNest(j, "write") /\ Write(FdNest, DataNest)

CloseNest == \E j \in 1..Len(ScriptNest) : DueNest(j, "close") /\ Close(FdNest)

ReadNest ==
    \E j \in 1..Len(ScriptNest) :
       DueNest(j, "read") /\ Read(FdNest, Len(DataNest))

\* no call through the missing directory was made yet
NoMissNest == \A i \in 1..Len(hist) : hist[i].path # MissingNest

MissNest ==
    /\ NoMissNest
    /\ StageNest < Len(ScriptNest)
    /\ \/ Open(MissingNest, {"O_CREAT"})
       \/ Mkdir(MissingNest)
       \/ Rmdir(MissingNest)
       \/ Unlink(MissingNest)

NextNest ==
    MkdirNest \/ OpenNest \/ WriteNest \/ CloseNest \/ ReadNest \/ MissNest

SpecNest == InitNest /\ [][NextNest]_vars

\* ------------------------------------------------------------------------
\* C15: paths through nested directories
\* ------------------------------------------------------------------------

\* some component of the path before the last names no DIRECTORY entry
IntermediateMissing(d, path) ==
    LET comps == Split(path)
    IN \E i \in 1..(Len(comps) - 1) :
          ~ResolveFrom(d, root_directory_region_, SubSeq(comps, 1, i), 1,
                       DIRECTORY_ENTRY).ok

\* the last five calls created "d/e/f", wrote to it, closed it, opened it
\* again and read as many bytes, after "d" and "d/e" were made
NestedRoundTrip ==
    /\ MadeBefore(<< Cd >>)
    /\ MadeBefore(<< Cd, SLASH, Ce >>)
    /\ Len(hist) >= 5
    /\ \A j \in 1..5 : IsScripted(hist[Len(hist) - 5 + j], CreateNest - 1 + j)
    /\ hist[Len(hist) - 4].ret >= 0
    /\ LastCall.done

\* C15: after mkdir_virtual("A") and mkdir_virtual("A/B"), a file created
\* as "A/B/f" and written is found again by open_virtual("A/B/f", 0) with
\* the same contents, however many sibling entries precede A or B in their
\* directories; and any open, mkdir, rmdir or unlink whose path has an
\* intermediate component that names no DIRECTORY entry returns -1 without
\* changing any block.
C15_NestedPaths ==
    /\ [](NestedRoundTrip
          => /\ hist[Len(hist) - 1].ret >= 0
             /\ LastCall.ret = Len(DataNest)
             /\ LastCall.out = DataNest)
    /\ [][((Returned("open") \/ Returned("mkdir") \/ Returned("rmdir")
              \/ Returned("unlink"))
           /\ IntermediateMissing(disk, ThisCall.path))
          => (ThisCall.ret = -1 /\ disk' = disk)]_vars

\* C15 witness: the whole script ran, so a file and a directory precede
\* "d" in the root and two directories precede "e" in "d", and a call
\* through the missing directory was made as well
C15_Witness ==
    /\ NestedRoundTrip
    /\ \A j \in 1..(CreateNest - 1) :
          \E i \in 1..Len(hist) : IsScripted(hist[i], j) /\ hist[i].ret >= 0
    /\ ~NoMissNest
    /\ LastCall.out = DataNest

\* ------------------------------------------------------------------------
\* A storage file that fills up: files and directories with fresh names are
\* created in the root until no block is left
\* ------------------------------------------------------------------------

BlockCountFull == 5
MaxOpsFull == 4

\* names of one and of two characters
NamesFull == {<< Ca >>, << Cd >>, << Ce, Cf >>}

InitFull == \E n \in {BlockCountFull - 1, BlockCountFull} : InitWith(n)

MoreFull == Len(hist) < MaxOpsFull

\* no entry of either type has the name
Fresh(path) ==
    /\ ~Resolve(disk, path, FILE_ENTRY).ok
    /\ ~Resolve(disk, path, DIRECTORY_ENTRY).ok

MkdirFull == MoreFull /\ \E path \in NamesFull : Fresh(path) /\ Mkdir(path)

OpenFull ==
    /\ MoreFull
    /\ \E path \in NamesFull : Fresh(path) /\ Open(path, {"O_CREAT"})

CloseFull ==
    /\ MoreFull
    /\ \E fd \in Descriptors : descriptors_[fd].open /\ Close(fd)

NextFull == MkdirFull \/ OpenFull \/ CloseFull

SpecFull == InitFull /\ [][NextFull]_vars

\* ------------------------------------------------------------------------
\* C16: creation when the storage file is full
\* ------------------------------------------------------------------------

\* the step is a mkdir_virtual, or an open_virtual with O_CREAT of a file
\* that does not exist while a slot of the descriptor table is free
Creates ==
    \/ Returned("mkdir")
    \/ /\ Returned("open")
       /\ "O_CREAT" \in ThisCall.flags
       /\ ~Existing.ok
       /\ SlotFree

\* the type of entry the step is to make
CreatedType ==
    IF ThisCall.op = "mkdir" THEN DIRECTORY_ENTRY ELSE FILE_ENTRY

\* a creation needs a content head and a metadata head at least: one free
\* block is too few
TooFewFree == Cardinality(FreeBlocks(disk)) <= 1

\* C16: when mkdir_virtual, or open_virtual with O_CREAT on a missing file,
\* runs with fewer free blocks than it needs, it returns -1; when it returns
\* -1 the set of allocated blocks and all directory entries are as before
\* the call; when it returns success the new entry is resolvable by its
\* full name afterwards.
C16_CreationAtomic ==
    [][Creates
       => /\ TooFewFree => ThisCall.ret = -1
          /\ ThisCall.ret = -1
             => /\ FreeBlocks(disk') = FreeBlocks(disk)
                /\ Tree(disk') = Tree(disk)
          /\ ThisCall.ret >= 0
             => Resolve(disk', ThisCall.path, CreatedType).ok]_vars

\* ------------------------------------------------------------------------
\* A file whose bytes look like a directory entry: the file is written,
\* closed and unlinked, a directory is made and a name is unlinked in it
\* ------------------------------------------------------------------------

BlockCountRoot == 8
MaxOpsRoot == 7

\* ten bytes a caller may write: read as a directory entry they are a FILE
\* entry with metadata region 1 and content region 0; read as a metadata
\* region they end in the name "f" of length 1
EntryImage ==
    << FILE_ENTRY >> \o LE16(1) \o LE16(root_directory_region_)
    \o << 0, 0, 0 >> \o << 1, Cf >>

DataRoot == {Bytes(1, 2), EntryImage}

FilesRoot == {<< Cf >>, << Cd, SLASH, Cf >>}

InitRoot == InitWith(BlockCountRoot)

MoreRoot == Len(hist) < MaxOpsRoot

OpenRoot == MoreRoot /\ NoneOpen /\ Open(<< Cf >>, {"O_CREAT"})

WriteRoot ==
    /\ MoreRoot
    /\ ~NoneOpen
    /\ LastCall.op = "open"
    /\ \E buffer \in DataRoot : Write(0, buffer)

CloseRoot == MoreRoot /\ ~NoneOpen /\ Close(0)

UnlinkRoot == MoreRoot /\ NoneOpen /\ \E path \in FilesRoot : Unlink(path)

MkdirRoot == MoreRoot /\ ~MadeBefore(<< Cd >>) /\ Mkdir(<< Cd >>)

NextRoot == OpenRoot \/ WriteRoot \/ CloseRoot \/ UnlinkRoot \/ MkdirRoot

SpecRoot == InitRoot /\ [][NextRoot]_vars

\* ------------------------------------------------------------------------
\* C21: block 0
\* ------------------------------------------------------------------------

\* C21: in every state reachable through the public operations block 0 has
\* in_use = 1 and prev = INVALID and is the head of the root directory
\* region; no operation frees it or hands it out from the allocator (no
\* open descriptor has it as a region).
C21_RootBlock ==
    /\ HdrInUse(disk, root_directory_region_) = BLOCK_IN_USE_INDICATOR
    /\ HdrPrev(disk, root_directory_region_) = INVALID_BLOCK
    /\ \A k \in Descriptors :
          descriptors_[k].open
          => /\ descriptors_[k].content_region # root_directory_region_
             /\ descriptors_[k].metadata_region # root_directory_region_

\* ------------------------------------------------------------------------
\* A restart: the process ends with every descriptor closed and a new
\* process initialises on the same backing file
\* ------------------------------------------------------------------------

BlockCountPersist == 6
MaxOpsPersist == 11
MaxWritesPersist == 2
MaxLenPersist == 5
LensPersist == {2, MaxLenPersist}

\* a read long enough for the whole file
ViewLenPersist == 2 * MaxLenPersist

InitPersist == InitWith(BlockCountPersist)

MorePersist == Len(hist) < MaxOpsPersist

\* the calls of the history with the operation op
CallsOf(op) == {i \in 1..Len(hist) : hist[i].op = op}

Restarted == CallsOf("restart") # {}

\* the header fields storage_initialize reads from an existing backing file
storage_initialize_size(d) == DecLE(SubSeq(d, 1, 2))

storage_initialize_count(d) == DecLE(SubSeq(d, 3, 4))

\* the process ended and the next one ran storage_initialize: the backing
\* file is kept, every variable starts from its initial value
RestartPersist ==
    /\ MorePersist
    /\ ~stuck
    /\ hist # << >>
    /\ ~Restarted
    /\ NoneOpen
    /\ pos' = FIRST_BLOCK_POSITION
    /\ active_block_size_' = storage_initialize_size(disk)
    /\ active_block_count_' = storage_initialize_count(disk)
    /\ current_block_index_' = 0
    /\ current_block_position_' = 0
    /\ current_region_position_' = 0
    /\ current_block_' = [in_use |-> 0, previous_block |-> 0, next_block |-> 0]
    /\ descriptors_' = [i \in 0..(MaxDescriptors - 1) |-> NULL]
    /\ last_used_descriptor_' = -1
    /\ hist' = Append(hist, [Call("restart", << >>, {}, -1, << >>, 0, 0, "")
                             EXCEPT !.done = TRUE])
    /\ UNCHANGED << disk, stuck >>

CreatePersist == hist = << >> /\ Open(<< Cf >>, {"O_CREAT"})

\* a second descriptor before the restart, one descriptor after it
OpenPersist ==
    /\ MorePersist
    /\ hist # << >>
    /\ SlotFree
    /\ IF Restarted THEN LastCall.op = "restart" ELSE CallsOf("seek") = {}
    /\ Open(<< Cf >>, {})

\* writes come before the file is looked at
WritePersist ==
    /\ MorePersist
    /\ ~Restarted
    /\ CallsOf("seek") = {}
    /\ Cardinality(CallsOf("write")) < MaxWritesPersist
    /\ \E fd \in Descriptors :
          /\ descriptors_[fd].open
          /\ \E n \in LensPersist : Write(fd, Bytes(fd + 1, n))

\* the file is looked at through one descriptor: from its start ...
SeekPersist ==
    /\ MorePersist
    /\ ~Restarted
    /\ CallsOf("seek") = {}
    /\ CallsOf("write") # {}
    /\ \E fd \in Descriptors : descriptors_[fd].open /\ Seek(fd, 0, "SEEK_SET")

\* ... to its end; after the restart through the descriptor just opened
ReadPersist ==
    /\ MorePersist
    /\ hist # << >>
    /\ \/ LastCall.op = "seek" /\ Read(LastCall.fd, ViewLenPersist)
       \/ /\ Restarted
          /\ LastCall.op = "open"
          /\ Read(LastCall.ret, ViewLenPersist)

ClosePersist ==
    /\ MorePersist
    /\ ~Restarted
    /\ \E fd \in Descriptors : descriptors_[fd].open /\ Close(fd)

NextPersist ==
    \/ CreatePersist
    \/ OpenPersist
    \/ WritePersist
    \/ SeekPersist
    \/ ReadPersist
    \/ ClosePersist
    \/ RestartPersist

SpecPersist == InitPersist /\ [][NextPersist]_vars

\* ------------------------------------------------------------------------
\* C22: persistence
\* ------------------------------------------------------------------------

\* the file was read through a descriptor from its start before the restart
\* and is read again, through a new descriptor, after it
ReadAgain ==
    /\ Restarted
    /\ CallsOf("read") # {}
    /\ LastCall.op = "read"

\* the read before the restart
ReadBefore == hist[CHOOSE i \in CallsOf("read") : \A k \in CallsOf("read") : i <= k]

\* C22: after successful operations, with all descriptors closed, all
\* in-memory state discarded and the engine initialised again on the same
\* backing file, the file resolves as before and has the same length and
\* contents as seen through a descriptor before the restart.
C22_Persistence ==
    ReadAgain
    => /\ hist[Len(hist) - 1].ret >= 0
       /\ LastCall.ret = ReadBefore.ret
       /\ LastCall.out = ReadBefore.out

\* ------------------------------------------------------------------------
\* A directory made and removed in an empty tree, on a fresh storage file or
\* after a file was created, written and unlinked
\* ------------------------------------------------------------------------

BlockCountSym == 8
MaxOpsSym == 6
LongNameSym == 9

\* a short name, and a name whose metadata fills a block and takes a second
NamesSym == {<< Cd >>, Rep(Ce, LongNameSym)}

\* bytes a later directory reads as UNUSED entries, and other bytes
DataSym == {Rep(UNUSED_ENTRY, 2), Bytes(1, 2), Bytes(1, 12)}

InitSym == InitWith(BlockCountSym)

MoreSym == Len(hist) < MaxOpsSym

OpenSym == MoreSym /\ NoneOpen /\ Open(<< Cf >>, {"O_CREAT"})

WriteSym ==
    /\ MoreSym
    /\ ~NoneOpen
    /\ LastCall.op = "open"
    /\ \E buffer \in DataSym : Write(0, buffer)

CloseSym == MoreSym /\ ~NoneOpen /\ Close(0)

UnlinkSym == MoreSym /\ NoneOpen /\ Unlink(<< Cf >>)

\* the history keeps the number of free blocks before the call as n
MkdirSym ==
    /\ MoreSym
    /\ \E path \in NamesSym :
          /\ ~MadeBefore(path)
          /\ Do("mkdir_virtual", << path >>,
                Call("mkdir", path, {}, -1, << >>,
                     Cardinality(FreeBlocks(disk)), 0, ""))

RmdirSym ==
    /\ MoreSym
    /\ hist # << >>
    /\ LastCall.op = "mkdir"
    /\ Rmdir(LastCall.path)

NextSym == OpenSym \/ WriteSym \/ CloseSym \/ UnlinkSym \/ MkdirSym \/ RmdirSym

SpecSym == InitSym /\ [][NextSym]_vars

\* ------------------------------------------------------------------------
\* C23: mkdir then rmdir
\* ------------------------------------------------------------------------

\* the step is an rmdir_virtual that returns 0, of the directory the call
\* before it made (mkdir_virtual returned 0) in a tree that was empty
RemovesJustMade ==
    /\ Returned("rmdir")
    /\ ThisCall.ret = 0
    /\ hist # << >>
    /\ LastCall.op = "mkdir" /\ LastCall.ret = 0
    /\ LastCall.path = ThisCall.path
    /\ Len(Tree(disk)) = 1

\* C23: on an empty tree, mkdir_virtual(p) returning 0 followed by
\* rmdir_virtual(p) returning 0 leaves the number of free blocks equal to
\* its value before the mkdir.
C23_CreateDeleteSymmetry ==
    [][RemovesJustMade
       => Cardinality(FreeBlocks(disk')) = LastCall.n]_vars

\* C23 witness: a directory with a name of nine characters was made after
\* a file was unlinked, and was removed again
C23_Witness ==
    /\ Len(hist) >= 3
    /\ LastCall.op = "rmdir" /\ LastCall.ret = 0
    /\ LastCall.path = Rep(Ce, LongNameSym)
    /\ hist[Len(hist) - 1].op = "mkdir" /\ hist[Len(hist) - 1].ret = 0
    /\ Cardinality(FreeBlocks(disk)) = hist[Len(hist) - 1].n
    /\ Tree(disk) = << >>
    /\ \E i \in CallsOf("unlink") : hist[i].ret = 0

\* ------------------------------------------------------------------------
\* One directory filled with entries: files and directories with distinct
\* names are created in the root, or in "d", and removed again
\* ------------------------------------------------------------------------

BlockCountPlace == 14
MaxOpsPlace == 5

\* three names in the root and the same three names in "d"
NamesPlace ==
    {<< Ca >>, << Ce >>, << Cf >>,
     << Cd, SLASH, Ca >>, << Cd, SLASH, Ce >>, << Cd, SLASH, Cf >>}

InitPlace == InitWith(BlockCountPlace)

MorePlace == Len(hist) < MaxOpsPlace

\* the calls before this one were made in the root, or in "d"
SameDirectory(path) ==
    \A i \in 2..Len(hist) :
       hist[i].path # << >> => Len(hist[i].path) = Len(path)

\* nothing was removed so far
OnlyCreated == CallsOf("rmdir") = {} /\ CallsOf("unlink") = {}

\* "d" is made first, or not at all
MkdirFirstPlace == hist = << >> /\ Mkdir(<< Cd >>)

MkdirPlace ==
    /\ MorePlace
    /\ \E path \in NamesPlace :
          Fresh(path) /\ SameDirectory(path) /\ Mkdir(path)

CreatePlace ==
    /\ MorePlace
    /\ NoneOpen
    /\ \E path \in NamesPlace :
          Fresh(path) /\ SameDirectory(path) /\ Open(path, {"O_CREAT"})

ClosePlace == MorePlace /\ ~NoneOpen /\ Close(0)

\* one entry is removed
RmdirPlace ==
    /\ MorePlace
    /\ OnlyCreated
    /\ \E path \in NamesPlace :
          /\ Resolve(disk, path, DIRECTORY_ENTRY).ok
          /\ SameDirectory(path)
          /\ Rmdir(path)

UnlinkPlace ==
    /\ MorePlace
    /\ OnlyCreated
    /\ NoneOpen
    /\ \E path \in NamesPlace :
          /\ Resolve(disk, path, FILE_ENTRY).ok
          /\ SameDirectory(path)
          /\ Unlink(path)

NextPlace ==
    \/ MkdirFirstPlace
    \/ MkdirPlace
    \/ CreatePlace
    \/ ClosePlace
    \/ RmdirPlace
    \/ UnlinkPlace

SpecPlace == InitPlace /\ [][NextPlace]_vars

\* ------------------------------------------------------------------------
\* C24: where a new entry goes
\* ------------------------------------------------------------------------

\* the step creates an entry: a mkdir_virtual that returns 0, or an
\* open_virtual with O_CREAT of a missing file that returns a descriptor
Created ==
    \/ Returned("mkdir") /\ ThisCall.ret = 0
    \/ /\ Returned("open")
       /\ "O_CREAT" \in ThisCall.flags
       /\ ~Existing.ok
       /\ ThisCall.ret >= 0

\* the region of the directory that contains the path
Containing(d, path) ==
    LET comps == Split(path)
    IN IF Len(comps) = 1 THEN root_directory_region_
       ELSE ResolveFrom(d, root_directory_region_,
                        SubSeq(comps, 1, Len(comps) - 1), 1,
                        DIRECTORY_ENTRY).content_region

\* the place in Entries of the lowest slot that is UNUSED or END
LowestVacant(es) ==
    LET unused == {k \in 1..Len(es) : es[k].type = UNUSED_ENTRY}
    IN IF unused = {} THEN Len(es) + 1
       ELSE CHOOSE k \in unused : \A j \in unused : k <= j

\* the new entry is in the lowest vacant slot of the directory es, holds
\* the name created, and the other slots are as they were
PlacedLowest(es, after, path) ==
    LET j == LowestVacant(es)
    IN /\ Len(after) = Max(Len(es), j)
       /\ after[j].type = CreatedType
       /\ NameOf(disk', after[j]) = Split(path)[Len(Split(path))]
       /\ \A k \in 1..Len(es) : k # j => after[k] = es[k]

\* the names created
Kept ==
    {path \in NamesPlace :
       \E i \in 1..Len(hist) :
          /\ hist[i].path = path
          /\ hist[i].op \in {"mkdir", "open"}
          /\ hist[i].ret >= 0}

\* the entry of a name, whichever its type
EntryOf(path) ==
    IF Resolve(disk, path, FILE_ENTRY).ok
    THEN Resolve(disk, path, FILE_ENTRY)
    ELSE Resolve(disk, path, DIRECTORY_ENTRY)

\* every name created resolves, to regions in use that no other name has
OwnRegions ==
    /\ \A path \in Kept :
          /\ EntryOf(path).ok
          /\ HdrInUse(disk, EntryOf(path).metadata_region)
                = BLOCK_IN_USE_INDICATOR
          /\ HdrInUse(disk, EntryOf(path).content_region)
                = BLOCK_IN_USE_INDICATOR
          /\ EntryOf(path).metadata_region # EntryOf(path).content_region
    /\ \A p1, p2 \in Kept :
          p1 # p2
          => {EntryOf(p1).metadata_region, EntryOf(p1).content_region}
             \cap {EntryOf(p2).metadata_region, EntryOf(p2).content_region}
             = {}

\* C24: mkdir_virtual and file creation write the new entry at the
\* lowest-index slot of the containing directory whose type is END or
\* UNUSED, so a slot tombstoned by unlink or rmdir is reused before the
\* directory grows; and after creating k distinctly named entries in one
\* directory, more than fit in one block, every one of them still resolves
\* to its own regions.
C24_SlotPlacement ==
    /\ [][Created
          => PlacedLowest(Entries(disk, Containing(disk, ThisCall.path)),
                          Entries(disk', Containing(disk, ThisCall.path)),
                          ThisCall.path)]_vars
    /\ [](OnlyCreated => OwnRegions)

\* C24 witness: a slot made UNUSED by rmdir_virtual was taken again while
\* the directory holds three entries, one of them in its second block
C24_Witness ==
    /\ Len(hist) >= 2
    /\ LastCall.op = "mkdir" /\ LastCall.ret = 0
    /\ \E i \in CallsOf("rmdir") : hist[i].ret = 0
    /\ Len(Entries(disk, root_directory_region_)) = 3
    /\ \A k \in 1..3 : Live(Entries(disk, root_directory_region_)[k])
    /\ \A path \in {<< Ca >>, << Ce >>, << Cf >>} : EntryOf(path).ok

\* ------------------------------------------------------------------------
\* One file through one descriptor: writes, reads and seeks in any order
\* ------------------------------------------------------------------------

BlockCountLen == 6
MaxOpsLen == 6
WriteLensLen == {2, 7, 9}
ReadLensLen == {2, 10}
OffsetsLen == {0, 1}

InitLen == InitWith(BlockCountLen)

MoreLen == hist # << >> /\ Len(hist) < MaxOpsLen

CreateLen == hist = << >> /\ Open(<< Cf >>, {"O_CREAT"})

\* bytes that differ from place to place, or zeros
WriteLen ==
    /\ MoreLen
    /\ \E n \in WriteLensLen :
          \E buffer \in {Bytes(Len(hist), n), Rep(0, n)} : Write(0, buffer)

ReadLen == MoreLen /\ \E n \in ReadLensLen : Read(0, n)

SeekLen == MoreLen /\ \E offset \in OffsetsLen : Seek(0, offset, "SEEK_SET")

NextLen == CreateLen \/ WriteLen \/ ReadLen \/ SeekLen

SpecLen == InitLen /\ [][NextLen]_vars

\* ------------------------------------------------------------------------
\* C25: the length after a write
\* ------------------------------------------------------------------------

\* the step is a write_virtual through the open descriptor k
WritesOn(k) ==
    /\ Returned("write")
    /\ ThisCall.fd = k
    /\ descriptors_[k].open

\* where the write leaves the cursor of descriptor k
CursorAfter(k) == descriptors_[k].reader_position + ThisCall.n

\* C25: after write_virtual(fd, buf, n) leaves the descriptor cursor at
\* c' = c + n with c' at or past the descriptor's previous length, the
\* descriptor's length becomes c' + 1 and that value is written at byte 0
\* of the file's metadata region; when c' is below the previous length,
\* length and metadata are unchanged.
C25_LengthUpdate ==
    [][\A k \in Descriptors :
         WritesOn(k)
         => /\ descriptors_'[k].reader_position = CursorAfter(k)
            /\ IF CursorAfter(k) >= descriptors_[k].length
               THEN /\ descriptors_'[k].length = CursorAfter(k) + 1
                    /\ StoredLength(disk', descriptors_[k].metadata_region)
                          = CursorAfter(k) + 1
               ELSE /\ descriptors_'[k].length = descriptors_[k].length
                    /\ RegionBytes(disk', descriptors_[k].metadata_region)
                          = RegionBytes(disk, descriptors_[k].metadata_region)]_vars

\* ------------------------------------------------------------------------
\* One file through two descriptors
\* ------------------------------------------------------------------------

BlockCountShare == 6
MaxOpsShare == 5
LensShare == {2, 5}

InitShare == InitWith(BlockCountShare)

MoreShare == hist # << >> /\ Len(hist) < MaxOpsShare

CreateShare == hist = << >> /\ Open(<< Cf >>, {"O_CREAT"})

OpenShare == MoreShare /\ SlotFree /\ Open(<< Cf >>, {})

WriteShare ==
    /\ MoreShare
    /\ \E fd \in Descriptors :
          /\ descriptors_[fd].open
          /\ \E n \in LensShare : Write(fd, Bytes(fd + 1, n))

ReadShare ==
    /\ MoreShare
    /\ \E fd \in Descriptors :
          /\ descriptors_[fd].open
          /\ \E n \in LensShare : Read(fd, n)

CloseShare ==
    /\ MoreShare
    /\ \E fd \in Descriptors : descriptors_[fd].open /\ Close(fd)

NextShare == CreateShare \/ OpenShare \/ WriteShare \/ ReadShare \/ CloseShare

SpecShare == InitShare /\ [][NextShare]_vars

\* ------------------------------------------------------------------------
\* C26: the stored length with two descriptors
\* ------------------------------------------------------------------------

\* two descriptors are open on the same file
SharedFile(k, j) ==
    /\ k # j
    /\ descriptors_[k].open /\ descriptors_[j].open
    /\ descriptors_[k].metadata_region = descriptors_[j].metadata_region

\* C26: when two descriptors are open on the same file, a write_virtual
\* through either one never decreases the length stored in the file's
\* metadata region.
C26_StoredLengthGrows ==
    [][\A k, j \in Descriptors :
         (WritesOn(k) /\ SharedFile(k, j))
         => StoredLength(disk', descriptors_[k].metadata_region)
               >= StoredLength(disk, descriptors_[k].metadata_region)]_vars

\* ------------------------------------------------------------------------
\* The storage engine called directly (virtualStorage.h): regions are
\* allocated, jumped to, written, read and sought in
\* ------------------------------------------------------------------------

BlockCountEngine == 5
MaxOpsEngine == 5
LensEngine == {3, 10, 12}
OffsetsEngine == {-12, -4, -1, 4, 12}

InitEngine == InitWith(BlockCountEngine)

MoreEngine == Len(hist) < MaxOpsEngine

\* a call of the engine, as the history records it: fd is the region
EngineCall(op, region, buffer, n, offset) ==
    Call(op, << >>, {}, region, buffer, n, offset, "")

\* the regions the caller holds: the root and those allocated
RegionsEngine ==
    ({root_directory_region_}
     \cup {hist[i].ret : i \in CallsOf("storage_allocate_region")})
    \ {INVALID_REGION}

\* the cursor is in a region: the caller jumped to one and has allocated
\* nothing since
InRegion ==
    /\ hist # << >>
    /\ LastCall.op # "storage_allocate_region"

\* what an engine function returned, as the record Commit takes
Result(x) ==
    IF "disk" \in DOMAIN x
    THEN [s |-> x, ret |-> 0, out |-> << >>]
    ELSE [s |-> x.s, ret |-> x.ret,
          out |-> IF "buf" \in DOMAIN x THEN x.buf ELSE << >>]

\* one call of the engine function f with the arguments args
DoEngine(f, args, call) ==
    /\ ~stuck
    /\ \E r0 \in {Result(Fn(f, << St(0) >> \o args))} :
          \E junk \in Junks(r0) :
             Commit(IF junk = 0 THEN r0
                    ELSE Result(Fn(f, << St(junk) >> \o args)), call)

AllocateEngine ==
    /\ MoreEngine
    /\ DoEngine("storage_allocate_region", << >>,
                EngineCall("storage_allocate_region", -1, << >>, 0, 0))

JumpEngine ==
    /\ MoreEngine
    /\ \E region \in RegionsEngine :
       DoEngine("storage_jump_to_region", << region >>,
                EngineCall("storage_jump_to_region", region, << >>, 0, 0))

WriteEngine ==
    /\ MoreEngine
    /\ InRegion
    /\ \E n \in LensEngine :
          DoEngine("storage_write_in_region", << Bytes(Len(hist), n) >>,
                   EngineCall("storage_write_in_region", -1,
                              Bytes(Len(hist), n), n, 0))

ReadEngine ==
    /\ MoreEngine
    /\ InRegion
    /\ \E n \in LensEngine :
          DoEngine("storage_read_in_region", << n >>,
                   EngineCall("storage_read_in_region", -1, << >>, n, 0))

SeekEngine ==
    /\ MoreEngine
    /\ InRegion
    /\ \E offset \in OffsetsEngine :
          DoEngine("storage_seek_in_region", << offset >>,
                   EngineCall("storage_seek_in_region", -1, << >>, 0, offset))

NextEngine ==
    AllocateEngine \/ JumpEngine \/ WriteEngine \/ ReadEngine \/ SeekEngine

SpecEngine == InitEngine /\ [][NextEngine]_vars

\* the in-block offset agrees with the host file offset
CursorAt(p, idx, bpos) ==
    p = BlockStart(idx) + BLOCK_HEADER_SIZE + bpos

CursorConsistent == CursorAt(pos, current_block_index_, current_block_position_)

\* ------------------------------------------------------------------------
\* C27: what storage_read_in_region does to the cursor
\* ------------------------------------------------------------------------

\* C27: whenever storage_read_in_region(buffer, n) returns k (k = n, or
\* k < n when the chain ends), the in-region offset has increased by
\* exactly k and the in-block offset matches the physical position in the
\* backing file, including when the read ends exactly at the end of the
\* tail block.
C27_ReadAdvances ==
    [][(Returned("storage_read_in_region") /\ CursorConsistent)
       => /\ current_region_position_'
                = current_region_position_ + ThisCall.ret
          /\ CursorAt(pos', current_block_index_', current_block_position_')]_vars

\* ------------------------------------------------------------------------
\* C28: a write that fills the tail block links the next one at once
\* ------------------------------------------------------------------------

\* regions are allocated, jumped to and written from their start or on
BlockCountTail == 5
MaxOpsTail == 5
LensTail == {3, 10, 12, 20}

InitTail == InitWith(BlockCountTail)

MoreTail == Len(hist) < MaxOpsTail

AllocateTail ==
    /\ MoreTail
    /\ DoEngine("storage_allocate_region", << >>,
                EngineCall("storage_allocate_region", -1, << >>, 0, 0))

JumpTail ==
    /\ MoreTail
    /\ \E region \in RegionsEngine :
          DoEngine("storage_jump_to_region", << region >>,
                   EngineCall("storage_jump_to_region", region, << >>, 0, 0))

WriteTail ==
    /\ MoreTail
    /\ InRegion
    /\ \E n \in LensTail :
          DoEngine("storage_write_in_region", << Bytes(Len(hist), n) >>,
                   EngineCall("storage_write_in_region", -1,
                              Bytes(Len(hist), n), n, 0))

NextTail == AllocateTail \/ JumpTail \/ WriteTail

SpecTail == InitTail /\ [][NextTail]_vars

\* the cursor stands at offset 0 of the region r, which has one block
FreshRegion(r) ==
    /\ hist # << >>
    /\ LastCall.op = "storage_jump_to_region"
    /\ LastCall.fd = r
    /\ HdrInUse(disk, r) = BLOCK_IN_USE_INDICATOR
    /\ HdrNext(disk, r) = INVALID_BLOCK

\* every block is marked in use or not in use, and enough are not in use to
\* hold n bytes more
EnoughFree(n) ==
    /\ \A b \in Blocks : HdrInUse(disk, b) \in {BLOCK_NOT_IN_USE_INDICATOR,
                                                BLOCK_IN_USE_INDICATOR}
    /\ Cardinality(FreeBlocks(disk)) >= n \div active_block_size_

\* the write() calls storage_write_in_region makes for this step's call
WritesOfCall ==
    Fn("storage_write_in_region", << St(0), ThisCall.buffer >>).s.log

\* the write() e covers a byte of the file in lo..(hi - 1)
Touches(e, lo, hi) == e[1] < hi /\ e[1] + e[2] > lo

\* in the sequence log the next field of block p is written, and no payload
\* byte of block b before that
LinkedFirst(log, p, b) ==
    \E k \in DOMAIN log :
       /\ log[k] = << BlockStart(p) + SIZEOF_CHAR + SIZEOF_REGION,
                      SIZEOF_REGION >>
       /\ \A j \in DOMAIN log :
             Touches(log[j], BlockStart(b) + BLOCK_HEADER_SIZE,
                     BlockStart(b) + BLOCK_HEADER_SIZE + active_block_size_)
             => k < j

\* C28: after writing n bytes from offset 0 into a fresh single-block
\* region with enough free blocks, the region's chain has exactly
\* floor(n / block_size) + 1 blocks (two after exactly block_size bytes),
\* and the predecessor's next is written before any payload byte of the new
\* tail.
C28_EagerTail ==
    [][\A r \in Blocks :
          (/\ Returned("storage_write_in_region")
           /\ FreshRegion(r)
           /\ EnoughFree(ThisCall.n))
          => /\ ThisCall.ret = ThisCall.n
             /\ Len(Chain(disk', r)) = ThisCall.n \div active_block_size_ + 1
             /\ ChainEnds(disk', r)
             /\ \A i \in 2..Len(Chain(disk', r)) :
                   LinkedFirst(WritesOfCall, Chain(disk', r)[i - 1],
                               Chain(disk', r)[i])]_vars

\* C28 witness: exactly block_size bytes were written into a region that was
\* just allocated, and the region has two blocks
C28_Witness ==
    /\ Len(hist) >= 3
    /\ \A i \in 1..(Len(hist) - 1) :
          hist[i].op \in {"storage_allocate_region", "storage_jump_to_region"}
    /\ LastCall.op = "storage_write_in_region"
    /\ LastCall.n = active_block_size_
    /\ LastCall.ret = LastCall.n
    /\ hist[Len(hist) - 1].fd # root_directory_region_
    /\ Len(Chain(disk, hist[Len(hist) - 1].fd)) = 2

\* ------------------------------------------------------------------------
\* C29: storage_seek_in_region backward across a block boundary
\* ------------------------------------------------------------------------

\* the cursor stands inside the payload of a block that has a predecessor
\* in its chain, and the seek by offset ends inside the region
CrossesBack(offset) ==
    /\ offset < 0
    /\ -offset > current_block_position_
    /\ current_block_position_ \in 0..(active_block_size_ - 1)
    /\ CursorConsistent
    /\ current_region_position_ + offset >= 0
    /\ current_block_index_ \in Blocks
    /\ HdrPrev(disk, current_block_index_) \in Blocks
    /\ HdrNext(disk, HdrPrev(disk, current_block_index_)) = current_block_index_

\* C29: storage_seek_in_region(offset) with offset < 0 whose magnitude
\* exceeds the current in-block offset moves the cursor into the predecessor
\* block by following prev, so that the resulting in-block offset stays
\* within 0..block_size-1 and the physical position stays inside a payload
\* of the region's chain.
C29_BackwardSeek ==
    [][(Returned("storage_seek_in_region") /\ CrossesBack(ThisCall.offset))
       => /\ current_block_position_' \in 0..(active_block_size_ - 1)
          /\ current_block_index_' # current_block_index_
          /\ current_block_index_' \in Blocks
          /\ CursorAt(pos', current_block_index_', current_block_position_')]_vars

\* ------------------------------------------------------------------------
\* C30: read_virtual and write_virtual leave the block headers alone
\* ------------------------------------------------------------------------

\* the step is a read_virtual or a write_virtual through the open
\* descriptor k
TransfersOn(k) ==
    /\ Returned("read") \/ Returned("write")
    /\ ThisCall.fd = k
    /\ descriptors_[k].open

\* the step allocates block b: a block not in use becomes a block in use
Allocated(b) ==
    /\ HdrInUse(disk, b) = BLOCK_NOT_IN_USE_INDICATOR
    /\ HdrInUse(disk', b) = BLOCK_IN_USE_INDICATOR

\* the step links a tail to block b: only its next changes, from
\* INVALID_BLOCK to a block the step allocates
TailLinked(b) ==
    /\ HdrInUse(disk', b) = HdrInUse(disk, b)
    /\ HdrPrev(disk', b) = HdrPrev(disk, b)
    /\ HdrNext(disk, b) = INVALID_BLOCK
    /\ HdrNext(disk', b) \in Blocks
    /\ Allocated(HdrNext(disk', b))

\* the blocks whose payload a transfer through descriptor k may touch: the
\* content chain, and the metadata chain where the length is kept
ChainsOf(d, k) ==
    ChainSet(d, descriptors_[k].content_region)
    \cup ChainSet(d, descriptors_[k].metadata_region)

\* C30: in every sequence of public operations on valid descriptors of
\* existing files, read_virtual and write_virtual transfer bytes only inside
\* payloads of blocks of the descriptor's chains; a block header changes
\* only through allocation or through patching next when a tail is linked.
C30_HeadersKept ==
    [][\A k \in Descriptors :
          TransfersOn(k)
          => \A b \in Blocks :
                /\ \/ HeaderBytes(disk', b) = HeaderBytes(disk, b)
                   \/ Allocated(b)
                   \/ TailLinked(b)
                /\ b \notin ChainsOf(disk', k)
                   => Payload(disk', b) = Payload(disk, b)]_vars

=============================================================================
